---- MODULE Spec2Model ----
(***************************************************************************)
(* Mission planning pipeline of the drone route builder:                   *)
(*   MissionOrchestrator.plan_mission  (orchestrator/mission_orchestrator) *)
(*   RoutePlanner.plan_single_drone_route   (planning/route_planner)       *)
(*   GraphBuilder.build_waypoint_graph      (environment/graph_builder)    *)
(*   AStar / ThetaStar / DStar find_path    (planning)                     *)
(*   VRPSolver.solve                        (optimization/vrp_solver)      *)
(*   MissionOptimizer, ConstraintChecker                                   *)
(*                                                                         *)
(* Three specifications share the operators:                               *)
(*   Spec        - an orchestrator owning one mission, plan_mission calls  *)
(*   SpecPlanner - the three planners' find_path on small graphs           *)
(*   SpecVRP     - VRPSolver.solve on small missions                       *)
(*                                                                         *)
(* Geometry is abstracted.  Waypoints sit at catalogue locations given in  *)
(* units of 10 m on a local plane; a no-fly zone is given by the catalogue *)
(* locations its polygon contains, the location pairs whose 2D segment its *)
(* polygon intersects, and its altitude band.  Floating point lengths and  *)
(* costs are integers (units of 10 m, rounded down).                       *)
(***************************************************************************)
EXTENDS Integers, Sequences, FiniteSets, TLC

(* ------------------------------ bounds -------------------------------- *)
MaxDrones == 2
MaxTargets == 2
MaxZones == 1
MaxCalls == 1

(* ----------------------------- sentinels ------------------------------ *)
\* float('inf')
Inf == 1000000
\* Python None for a node id / an index
NoNode == 0 - 1
\* Python None for a waypoint
NoWp == [loc |-> -1, alt |-> 0, type |-> "none"]

Min2(a, b) == IF a <= b THEN a ELSE b
Max2(a, b) == IF a >= b THEN a ELSE b
Abs(a) == IF a < 0 THEN -a ELSE a
\* a + b on floats where either may be inf
AddInf(a, b) == IF a >= Inf \/ b >= Inf THEN Inf ELSE a + b
\* floor of the square root
RECURSIVE ISqrtBetween(_, _, _)
ISqrtBetween(n, lo, hi) ==
    IF hi - lo <= 1 THEN lo
    ELSE LET mid == (lo + hi) \div 2
         IN IF mid * mid <= n THEN ISqrtBetween(n, mid, hi) ELSE ISqrtBetween(n, lo, mid)
\* the roots of small numbers, computed once
ISqrtTable == [n \in 0..4095 |-> ISqrtBetween(n, 0, n + 1)]
\* (the root of a 32-bit integer is below 46341)
ISqrt(n) == IF n \in DOMAIN ISqrtTable THEN ISqrtTable[n]
            ELSE ISqrtBetween(n, 0, Min2(n + 1, 46341))

(* --------------------- catalogue of mission points -------------------- *)
Site == [depot |-> 0, finish |-> 9]
DepotLoc == Site.depot
FinishLoc == Site.finish
TargetLocs == 1..MaxTargets
BaseLocs == {DepotLoc, FinishLoc} \cup TargetLocs

\* An interpolated point between catalogue locations a and b (Theta*).
MidLoc(a, b) == 100 + 10 * a + b
IsMid(l) == l >= 100
MidFrom(l) == (l - 100) \div 10
MidTo(l) == (l - 100) % 10
\* catalogue locations a point lies at or between
BaseOf(l) == IF IsMid(l) THEN {MidFrom(l), MidTo(l)} ELSE {l}

\* east / north offset (units of 10 m) of a catalogue location
XOf(l) == IF l = DepotLoc THEN 0
          ELSE IF l = FinishLoc THEN 30
          ELSE IF l % 2 = 1 THEN 20 ELSE 0
YOf(l) == IF l = DepotLoc THEN 0
          ELSE IF l = FinishLoc THEN 0 - 20
          ELSE 20 * (l \div 2)
XY(l) == IF IsMid(l)
         THEN <<(XOf(MidFrom(l)) + XOf(MidTo(l))) \div 2,
                (YOf(MidFrom(l)) + YOf(MidTo(l))) \div 2>>
         ELSE <<XOf(l), YOf(l)>>

\* Drone attributes shared by the fleet: altitudes and range in units of
\* 10 m, speeds in m/s, endurance (battery_capacity / power_consumption) in
\* thirds of a second
DroneCaps == [min_altitude |-> 1, max_altitude |-> 12, max_range |-> 1000,
              max_speed |-> 15, climb_rate |-> 5, descent_rate |-> 5,
              endurance3 |-> 150]
\* altitude at which a mission point is given
GroundAlt == Site.depot
TargetAlt(l) == 4 + l

DroneName(i) == IF i = 1 THEN "d1" ELSE IF i = 2 THEN "d2" ELSE IF i = 3 THEN "d3" ELSE "d4"
Drones == [i \in 1..MaxDrones |-> DroneName(i)]
WaypointTypes == {"depot", "target", "finish", "intermediate",
                  "landing_segment", "landing_approach"}

Wp(l, a, t) == [loc |-> l, alt |-> a, type |-> t]

(* --------------------------- domain: distance ------------------------- *)
\* Route._haversine_distance / CostModel._haversine_distance: horizontal length
Haversine(l1, l2) ==
    LET p == XY(l1)
        q == XY(l2)
    IN ISqrt((p[1] - q[1]) * (p[1] - q[1]) + (p[2] - q[2]) * (p[2] - q[2]))

\* CostModel.calculate_distance: 3D distance
CalculateDistance(l1, a1, l2, a2) ==
    LET Length(h) == ISqrt(h * h + (a2 - a1) * (a2 - a1))
    IN Length(Haversine(l1, l2))

(* --------------------------- no-fly zones ----------------------------- *)
AllPairsAt(l) == {{l, o} : o \in BaseLocs \ {l}}
ZoneCatalogue ==
   << [name |-> "ZT", pts |-> {1, 2}, segs |-> AllPairsAt(1) \cup AllPairsAt(2),
       min_altitude |-> 0, max_altitude |-> 100],
      [name |-> "ZX", pts |-> {}, segs |-> {{1, 2}},
       min_altitude |-> 0, max_altitude |-> 100],
      [name |-> "ZD", pts |-> {DepotLoc}, segs |-> AllPairsAt(DepotLoc),
       min_altitude |-> 0, max_altitude |-> 100],
      [name |-> "ZH", pts |-> {DepotLoc}, segs |-> AllPairsAt(DepotLoc),
       min_altitude |-> 2, max_altitude |-> 100] >>

\* NoFlyZone.contains(point, altitude)
ZoneContains(z, l, a) ==
    IF ~(z.min_altitude <= a /\ a <= z.max_altitude) THEN FALSE
    ELSE l \in z.pts

\* zone.geometry.intersects(LineString([p1, p2]))
GeometryIntersects(z, l1, l2) ==
    \/ \E p \in BaseOf(l1), q \in BaseOf(l2) : p # q /\ {p, q} \in z.segs
    \/ l1 \in z.pts
    \/ l2 \in z.pts

\* the 2D segment crosses the polygon and the altitude interval overlaps the band
SegmentInZone(z, l1, a1, l2, a2) ==
    /\ GeometryIntersects(z, l1, l2)
    /\ z.min_altitude <= Max2(a1, a2)
    /\ z.max_altitude >= Min2(a1, a2)

\* an altitude limit that is None
NoAlt == -1
\* MissionConstraints(no_fly_zones, min_altitude, max_altitude)
Constraints(zones, min_altitude, max_altitude) ==
    [no_fly_zones |-> zones, min_altitude |-> min_altitude, max_altitude |-> max_altitude]

Verdict(ok, reason) == [ok |-> ok, reason |-> reason]
Passed == Verdict(TRUE, "None")

\* the first zone of the list for which test holds, 0 when there is none
FirstZone(zones, test(_)) ==
    IF \E i \in 1..Len(zones) : test(zones[i])
    THEN CHOOSE i \in 1..Len(zones) : test(zones[i]) /\ \A j \in 1..(i - 1) : ~test(zones[j])
    ELSE 0

\* check_point that applies the minimum altitude to ground points too
MissionCheckPointNoGround(c, l, a, is_ground_point) ==
    LET InZone(z) == ZoneContains(z, l, a)
        Zone(i) == IF i = 0 THEN Passed ELSE Verdict(FALSE, "Point is in no-fly zone")
    IN IF c.min_altitude # NoAlt /\ a < c.min_altitude
       THEN Verdict(FALSE, "below minimum")
       ELSE IF c.max_altitude # NoAlt /\ a > c.max_altitude
       THEN Verdict(FALSE, "above maximum")
       ELSE Zone(FirstZone(c.no_fly_zones, InZone))

\* MissionConstraints.check_point(latitude, longitude, altitude, is_ground_point)
MissionCheckPoint(c, l, a, is_ground_point) ==
    LET InZone(z) == ZoneContains(z, l, a)
        Zone(i) == IF i = 0 THEN Passed ELSE Verdict(FALSE, "Point is in no-fly zone")
    IN IF ~is_ground_point /\ c.min_altitude # NoAlt /\ a < c.min_altitude
       THEN Verdict(FALSE, "below minimum")
       ELSE IF c.max_altitude # NoAlt /\ a > c.max_altitude
       THEN Verdict(FALSE, "above maximum")
       ELSE Zone(FirstZone(c.no_fly_zones, InZone))

\* WeatherConditions.is_safe_for_flight with its default limits
MaxWindSpeed == 15
MaxPrecipitation == 5
MinVisibility == 1
\* visibility is None
NoVisibility == -1
\* _get_weather_for_point answered None
NoConditions == [present |-> FALSE, wind_speed_10m |-> 0, precipitation |-> 0,
                 visibility |-> NoVisibility]
Conditions(wind, rain, visibility) ==
    [present |-> TRUE, wind_speed_10m |-> wind, precipitation |-> rain,
     visibility |-> visibility]
IsSafeForFlight(w) ==
    IF w.wind_speed_10m > MaxWindSpeed THEN Verdict(FALSE, "Wind speed")
    ELSE IF w.precipitation > MaxPrecipitation THEN Verdict(FALSE, "Precipitation")
    ELSE IF w.visibility # NoVisibility /\ w.visibility < MinVisibility
    THEN Verdict(FALSE, "Visibility")
    ELSE Passed

\* CostModel.is_valid_edge(lat1, lon1, alt1, lat2, lon2, alt2, is_start_ground,
\* is_end_ground); weather is what _get_weather_for_point answers for the
\* midpoint
CostModelIsValidEdge(c, weather, l1, a1, l2, a2, is_start_ground, is_end_ground) ==
    LET Crossed(z) == SegmentInZone(z, l1, a1, l2, a2)
        Zones(i) == IF i = 0 THEN Passed
                    ELSE Verdict(FALSE, "Edge intersects no-fly zone")
        Weather(safe) ==
            IF weather.present /\ ~safe.ok
            THEN Verdict(FALSE, "Weather conditions: " \o safe.reason)
            ELSE Zones(FirstZone(c.no_fly_zones, Crossed))
        End(e) == IF ~e.ok THEN Verdict(FALSE, "End point: " \o e.reason)
                  ELSE Weather(IsSafeForFlight(weather))
        Start(b) == IF ~b.ok THEN Verdict(FALSE, "Start point: " \o b.reason)
                    ELSE End(MissionCheckPoint(c, l2, a2, is_end_ground))
    IN Start(MissionCheckPoint(c, l1, a1, is_start_ground))

\* MissionConstraints.check_point (no global altitude limits configured)
CheckPoint(zones, l, a) == MissionCheckPoint(Constraints(zones, NoAlt, NoAlt), l, a, FALSE).ok

\* CostModel.is_valid_edge (no weather sample at the midpoint)
IsValidEdge(zones, l1, a1, l2, a2) ==
    CostModelIsValidEdge(Constraints(zones, NoAlt, NoAlt), NoConditions,
                         l1, a1, l2, a2, FALSE, FALSE).ok

(* -------------------------- navigation graph -------------------------- *)
(* A NavigationGraph value.  Every graph the program builds is created by  *)
(* NavigationGraph() without a cost model, so get_edge_weight returns the  *)
(* cached weight and the planners' cost-model branches are not taken.      *)
(*   n      number of nodes; node ids are 0..n-1 ("wp_i")                  *)
(*   pos    node -> <<x, y, alt>>                                          *)
(*   wp     node -> the waypoint get_node_waypoint builds                  *)
(*   adj    node -> neighbours in adjacency (insertion) order              *)
(*   w      <<a, b>> -> cached weight of the edge, both directions         *)
Nodes(G) == 0..(G.n - 1)
\* NavigationGraph.has_node
HasNode(G, a) == a \in Nodes(G)
\* NavigationGraph.has_edge
HasEdge(G, a, b) == <<a, b>> \in DOMAIN G.w
\* a get_neighbors that leaves out the last neighbour
GetNeighborsButLast(G, a) ==
    IF G.adj[a] = <<>> THEN <<>> ELSE SubSeq(G.adj[a], 1, Len(G.adj[a]) - 1)

\* NavigationGraph.get_neighbors
GetNeighbors(G, a) == G.adj[a]
\* NavigationGraph.get_edge_weight
GetEdgeWeight(G, a, b) == IF ~HasEdge(G, a, b) THEN Inf ELSE G.w[<<a, b>>]

\* _euclidean_distance_3d of a_star / theta_star, _heuristic of d_star
EuclideanDistance3d(G, a, b) ==
    LET p == G.pos[a]
        q == G.pos[b]
    IN ISqrt((p[1] - q[1]) * (p[1] - q[1]) + (p[2] - q[2]) * (p[2] - q[2])
             + (p[3] - q[3]) * (p[3] - q[3]))

\* AStar._heuristic scales the longitude difference by |latitude| of the
\* first node where cos(latitude) is meant; AbsLatOverCos is that factor.
AbsLatOverCos == 2
AStarHeuristic(G, a, b) ==
    LET p == G.pos[a]
        q == G.pos[b]
        lon_m == (p[1] - q[1]) * AbsLatOverCos
    IN ISqrt((p[2] - q[2]) * (p[2] - q[2]) + lon_m * lon_m
             + (p[3] - q[3]) * (p[3] - q[3]))

\* heapq order on (f, node) entries
MinEntry(open) ==
    CHOOSE e \in open : \A o \in open :
        e[1] < o[1] \/ (e[1] = o[1] /\ e[2] <= o[2])

\* a reconstruction that stops before the start node
RECURSIVE ReconstructPathNoStart(_, _)
ReconstructPathNoStart(came, node) ==
    IF node = NoNode \/ came[node] = NoNode THEN <<>>
    ELSE Append(ReconstructPathNoStart(came, came[node]), node)

\* follow came_from back to the start (came_from[start] is None)
RECURSIVE ReconstructPath(_, _)
ReconstructPath(came, node) ==
    IF node = NoNode THEN <<>>
    ELSE Append(ReconstructPath(came, came[node]), node)

\* find_path returns None
NoPath == <<>>

(* -------------------------------- A* ---------------------------------- *)
\* the body of "for neighbor in self.graph.get_neighbors(current)"
AStarRelaxOne(G, goal, cur, nb, S, closed) ==
    IF nb \in closed THEN S
    ELSE LET Relax(tentative_g) ==
                 IF nb \notin DOMAIN S.g \/ tentative_g < S.g[nb]
                 THEN [open |-> S.open \cup
                                  {<<tentative_g + AStarHeuristic(G, nb, goal), nb>>},
                       came |-> (nb :> cur) @@ S.came,
                       g |-> (nb :> tentative_g) @@ S.g]
                 ELSE S
         IN Relax(S.g[cur] + GetEdgeWeight(G, cur, nb))

RECURSIVE AStarRelax(_, _, _, _, _, _)
AStarRelax(G, goal, cur, i, S, closed) ==
    IF i > Len(GetNeighbors(G, cur)) THEN S
    ELSE AStarRelax(G, goal, cur, i + 1,
                    AStarRelaxOne(G, goal, cur, GetNeighbors(G, cur)[i], S, closed),
                    closed)

RECURSIVE AStarLoop(_, _, _, _)
AStarLoop(G, goal, S, closed) ==
    IF S.open = {} THEN NoPath
    ELSE LET Visit(cur, S1) ==
                 IF cur \in closed THEN AStarLoop(G, goal, S1, closed)
                 ELSE IF cur = goal THEN ReconstructPath(S1.came, cur)
                 ELSE AStarLoop(G, goal,
                                AStarRelax(G, goal, cur, 1, S1, closed \cup {cur}),
                                closed \cup {cur})
             \* heapq.heappop(open_set)
             Pop(top) == Visit(top[2], [S EXCEPT !.open = @ \ {top}])
         IN Pop(MinEntry(S.open))

\* AStar.find_path
AStarFindPath(G, start, goal) ==
    IF ~HasNode(G, start) \/ ~HasNode(G, goal) THEN NoPath
    ELSE AStarLoop(G, goal,
                   [open |-> {<<0, start>>}, came |-> (start :> NoNode),
                    g |-> (start :> 0)], {})

(* ------------------------------ Theta* -------------------------------- *)
\* ThetaStar._line_of_sight without a cost model: under 100 m always,
\* from 5 km never, in between always
LosNear == 10
LosFar == 500
LineOfSight(G, a, b) ==
    LET distance == EuclideanDistance3d(G, a, b)
    IN IF distance < LosNear THEN TRUE
       ELSE IF distance >= LosFar THEN FALSE
       ELSE TRUE

\* ThetaStar._direct_cost without a cost model
DirectCost(G, a, b) == EuclideanDistance3d(G, a, b)

ThetaRelaxOne(G, goal, cur, nb, S, closed) ==
    IF nb \in closed THEN S
    ELSE LET parent == S.came[cur]
             Relax(los, tentative_g) ==
                 IF nb \notin DOMAIN S.g \/ tentative_g < S.g[nb]
                 THEN [open |-> S.open \cup
                                  {<<tentative_g + EuclideanDistance3d(G, nb, goal), nb>>},
                       came |-> (nb :> (IF los THEN parent ELSE cur)) @@ S.came,
                       g |-> (nb :> tentative_g) @@ S.g]
                 ELSE S
             Try(los) ==
                 Relax(los, IF los THEN S.g[parent] + DirectCost(G, parent, nb)
                            ELSE S.g[cur] + GetEdgeWeight(G, cur, nb))
         IN Try(parent # NoNode /\ LineOfSight(G, parent, nb))

RECURSIVE ThetaRelax(_, _, _, _, _, _)
ThetaRelax(G, goal, cur, i, S, closed) ==
    IF i > Len(GetNeighbors(G, cur)) THEN S
    ELSE ThetaRelax(G, goal, cur, i + 1,
                    ThetaRelaxOne(G, goal, cur, GetNeighbors(G, cur)[i], S, closed),
                    closed)

RECURSIVE ThetaLoop(_, _, _, _)
ThetaLoop(G, goal, S, closed) ==
    IF S.open = {} THEN NoPath
    ELSE LET Visit(cur, S1) ==
                 IF cur \in closed THEN ThetaLoop(G, goal, S1, closed)
                 ELSE IF cur = goal THEN ReconstructPath(S1.came, cur)
                 ELSE ThetaLoop(G, goal,
                                ThetaRelax(G, goal, cur, 1, S1, closed \cup {cur}),
                                closed \cup {cur})
             \* heapq.heappop(open_set)
             Pop(top) == Visit(top[2], [S EXCEPT !.open = @ \ {top}])
         IN Pop(MinEntry(S.open))

\* ThetaStar.find_path
ThetaStarFindPath(G, start, goal) ==
    IF ~HasNode(G, start) \/ ~HasNode(G, goal) THEN NoPath
    ELSE ThetaLoop(G, goal,
                   [open |-> {<<0, start>>}, came |-> (start :> NoNode),
                    g |-> (start :> 0)], {})

(* ------------------------------- D* ----------------------------------- *)
(* A DStar instance: g_score, rhs and states per node, and open_list as    *)
(* the set of its (key1, key2, node) entries.  km stays 0.                 *)
KeyLess(a, b) == a[1] < b[1] \/ (a[1] = b[1] /\ a[2] < b[2])
InfKey == <<Inf, Inf>>

\* heapq order on (key1, key2, node) entries
MinEntry3(open) ==
    CHOOSE e \in open : \A o \in open :
        \/ KeyLess(e, o)
        \/ (e[1] = o[1] /\ e[2] = o[2] /\ e[3] <= o[3])

\* DStar._calculate_key
DCalculateKey(G, D, start, node) ==
    LET m == Min2(D.g[node], D.rhs[node])
    IN <<AddInf(m, EuclideanDistance3d(G, start, node)), m>>

\* DStar._remove
DRemove(D, node) == [D EXCEPT !.open = {e \in @ : e[3] # node}]

\* _insert without its last statement, self.states[node] = self.OPEN
DInsertKeepState(D, node, key) ==
    [D EXCEPT !.open = {e \in @ : e[3] # node} \cup {<<key[1], key[2], node>>}]

\* DStar._insert
DInsert(D, node, key) ==
    [D EXCEPT !.open = {e \in @ : e[3] # node} \cup {<<key[1], key[2], node>>},
              !.st[node] = "OPEN"]

\* DStar._top_key
DTopKey(D) ==
    LET Key(e) == <<e[1], e[2]>>
        Top(temp) == IF temp = {} THEN InfKey ELSE Key(MinEntry3(temp))
    IN Top({e \in D.open : D.st[e[3]] = "OPEN"})

\* _pop with `if` for its `while`: None when the first entry is not OPEN
DPopOnce(D) ==
    IF D.open = {} THEN [d |-> D, u |-> NoNode]
    ELSE LET Popped(e, D1) ==
                 [d |-> D1, u |-> IF D1.st[e[3]] = "OPEN" THEN e[3] ELSE NoNode]
         IN Popped(MinEntry3(D.open), [D EXCEPT !.open = @ \ {MinEntry3(D.open)}])

\* DStar._pop: entries of nodes that are not OPEN are dropped on the way
RECURSIVE DPop(_)
DPop(D) ==
    IF D.open = {} THEN [d |-> D, u |-> NoNode]
    ELSE LET Popped(e, D1) ==
                 IF D1.st[e[3]] = "OPEN" THEN [d |-> D1, u |-> e[3]] ELSE DPop(D1)
             \* heapq.heappop(self.open_list)
             Pop(e) == Popped(e, [D EXCEPT !.open = @ \ {e}])
         IN Pop(MinEntry3(D.open))

\* min over the neighbours of g_score[neighbor] + edge weight
RECURSIVE DMinRhs(_, _, _, _, _)
DMinRhs(G, D, node, i, best) ==
    IF i > Len(GetNeighbors(G, node)) THEN best
    ELSE LET nb == GetNeighbors(G, node)[i]
             candidate_rhs == AddInf(D.g[nb], GetEdgeWeight(G, nb, node))
         IN DMinRhs(G, D, node, i + 1,
                    IF candidate_rhs < best THEN candidate_rhs ELSE best)

\* DStar._update_vertex
DUpdateVertex(G, D, start, goal, node) ==
    LET Requeue(D2) ==
            IF D2.g[node] # D2.rhs[node]
            THEN DInsert(D2, node, DCalculateKey(G, D2, start, node))
            ELSE D2
        Unqueue(D1) == Requeue(IF D1.st[node] = "OPEN" THEN DRemove(D1, node) ELSE D1)
    IN Unqueue(IF node # goal
               THEN [D EXCEPT !.rhs[node] = DMinRhs(G, D, node, 1, Inf)]
               ELSE D)

RECURSIVE DUpdateNeighbors(_, _, _, _, _, _)
DUpdateNeighbors(G, D, start, goal, u, i) ==
    IF i > Len(GetNeighbors(G, u)) THEN D
    ELSE DUpdateNeighbors(G, DUpdateVertex(G, D, start, goal, GetNeighbors(G, u)[i]),
                          start, goal, u, i + 1)

\* the passes of the while loop of _compute_shortest_path that are followed
MaxIterations == 8

\* DStar._compute_shortest_path; crash: _pop returned None and the key of
\* None is asked for; iters counts the passes of the loop
RECURSIVE DComputeShortestPath(_, _, _, _)
DComputeShortestPath(G, D, start, goal) ==
    IF D.iters < MaxIterations
       /\ D.open # {} /\ (\/ KeyLess(DTopKey(D), DCalculateKey(G, D, start, start))
                          \/ D.rhs[start] # D.g[start])
    THEN LET Step(k_old, u, D1) ==
                 IF u = NoNode THEN [D1 EXCEPT !.crash = TRUE]
                 ELSE IF KeyLess(k_old, DCalculateKey(G, D1, start, u))
                 THEN DComputeShortestPath(G,
                          DInsert(D1, u, DCalculateKey(G, D1, start, u)), start, goal)
                 ELSE IF D1.g[u] > D1.rhs[u]
                 THEN DComputeShortestPath(G,
                          DUpdateNeighbors(G, [D1 EXCEPT !.g[u] = D1.rhs[u],
                                                          !.st[u] = "CLOSED"],
                                           start, goal, u, 1), start, goal)
                 ELSE DComputeShortestPath(G,
                          DUpdateNeighbors(G,
                              DUpdateVertex(G, [D1 EXCEPT !.g[u] = Inf], start, goal, u),
                              start, goal, u, 1), start, goal)
             Popped(k_old, P) == Step(k_old, P.u, P.d)
         IN Popped(DTopKey(D), DPop([D EXCEPT !.iters = @ + 1]))
    ELSE D

\* the neighbour _reconstruct_path steps to: the first one outside the path
\* with the least g_score + edge weight below inf
RECURSIVE DBestNeighbor(_, _, _, _, _, _, _)
DBestNeighbor(G, D, cur, inPath, i, best, bestCost) ==
    IF i > Len(GetNeighbors(G, cur)) THEN best
    ELSE LET nb == GetNeighbors(G, cur)[i]
             total_cost == AddInf(D.g[nb], GetEdgeWeight(G, cur, nb))
         IN IF nb \notin inPath /\ total_cost < bestCost
            THEN DBestNeighbor(G, D, cur, inPath, i + 1, nb, total_cost)
            ELSE DBestNeighbor(G, D, cur, inPath, i + 1, best, bestCost)

RECURSIVE DWalk(_, _, _, _)
DWalk(G, D, path, goal) ==
    LET current == path[Len(path)]
    IN IF current = goal THEN path
       ELSE LET StepTo(best_neighbor) ==
                    IF best_neighbor = NoNode THEN NoPath
                    ELSE DWalk(G, D, Append(path, best_neighbor), goal)
            IN StepTo(DBestNeighbor(G, D, current, {path[k] : k \in 1..Len(path)},
                                    1, NoNode, Inf))

\* DStar._reconstruct_path
DReconstructPath(G, D, start, goal) ==
    IF D.g[start] >= Inf THEN NoPath ELSE DWalk(G, D, <<start>>, goal)

\* DStar.find_path on an instance whose open_list is open; gives the path,
\* the open_list left behind and whether the call raised
DStarFindPath(G, open, start, goal) ==
    IF ~HasNode(G, start) \/ ~HasNode(G, goal)
    THEN [path |-> NoPath, open |-> open, crash |-> FALSE]
    ELSE LET D0 == [g |-> [x \in Nodes(G) |-> Inf],
                    rhs |-> [x \in Nodes(G) |-> IF x = goal THEN 0 ELSE Inf],
                    st |-> [x \in Nodes(G) |-> "NEW"],
                    open |-> open, crash |-> FALSE, iters |-> 0]
             D1 == DInsert(D0, goal, DCalculateKey(G, D0, start, goal))
             Answer(D2) ==
                 [path |-> IF D2.crash THEN NoPath
                           ELSE DReconstructPath(G, D2, start, goal),
                  open |-> D2.open, crash |-> D2.crash]
         IN Answer(DComputeShortestPath(G, D1, start, goal))

\* the DStar instance (g_score, rhs, states, open_list) that find_path
\* leaves behind
DStarInstance(G, open, start, goal) ==
    LET D0 == [g |-> [x \in Nodes(G) |-> Inf],
               rhs |-> [x \in Nodes(G) |-> IF x = goal THEN 0 ELSE Inf],
               st |-> [x \in Nodes(G) |-> "NEW"],
               open |-> open, crash |-> FALSE, iters |-> 0]
    IN DComputeShortestPath(G, DInsert(D0, goal, DCalculateKey(G, D0, start, goal)),
                            start, goal)

\* self.graph[node1][node2]['weight'] = new_cost, where self.graph is the
\* NavigationGraph: the class defines no __getitem__, so the statement
\* raises TypeError
SetCachedWeight(G, a, b, w) == [G |-> G, exc |-> "TypeError"]

\* DStar.replan for one changed edge (node1, node2, new_cost) between nodes
\* of the graph, on the instance D with start_node and goal_node
DStarReplan(G, D, start, goal, node1, node2, new_cost) ==
    LET Answer(G1, D2) ==
            [G |-> G1, D |-> D2, exc |-> IF D2.crash THEN "KeyError" ELSE "none",
             path |-> IF D2.crash THEN NoPath ELSE DReconstructPath(G1, D2, start, goal)]
        Updated(G1) ==
            Answer(G1, DComputeShortestPath(G1,
                           DUpdateVertex(G1, DUpdateVertex(G1, D, start, goal, node1),
                                         start, goal, node2),
                           start, goal))
        Written(r) ==
            IF r.exc # "none" THEN [G |-> G, D |-> D, exc |-> r.exc, path |-> NoPath]
            ELSE Updated(r.G)
    IN IF HasEdge(G, node1, node2) THEN Written(SetCachedWeight(G, node1, node2, new_cost))
       ELSE Updated(G)

(* ----------------------------- GraphBuilder --------------------------- *)
\* CostModel.calculate_cost at rest: the 3D length plus the climb (2.0 per
\* metre) or descent (1.2 per metre) penalty; the time and energy terms,
\* which grow with the same length, are left out
CalculateCost(l1, a1, l2, a2) ==
    CalculateDistance(l1, a1, l2, a2)
    + (IF a2 > a1 THEN 2 * (a2 - a1) ELSE (6 * (a1 - a2)) \div 5)

\* the increasing sequence of the members of a set of node ids
RECURSIVE SortedSeq(_)
SortedSeq(S) ==
    IF S = {} THEN <<>>
    ELSE LET From(m) == <<m>> \o SortedSeq(S \ {m})
         IN From(CHOOSE x \in S : \A y \in S : x <= y)

\* GraphBuilder.build_waypoint_graph(waypoints, connect_all=True, max_distance):
\* every node is added with the default waypoint type; an ordered pair gets
\* _add_edge_if_valid unless it is longer than max_distance; the graph is
\* undirected, so the weight that stays is the one of the later call (j -> i
\* with j > i)
BuildWaypointGraph(zones, wps, max_distance) ==
    LET n == Len(wps)
        at(i) == wps[i + 1]
        joined(i, j) ==
            /\ i # j
            /\ CalculateDistance(at(i).loc, at(i).alt, at(j).loc, at(j).alt) <= max_distance
            /\ IsValidEdge(zones, at(i).loc, at(i).alt, at(j).loc, at(j).alt)
        pairs == {p \in (0..(n - 1)) \X (0..(n - 1)) : joined(p[1], p[2])}
    IN [n |-> n,
        pos |-> [i \in 0..(n - 1) |-> <<XY(at(i).loc)[1], XY(at(i).loc)[2], at(i).alt>>],
        wp |-> [i \in 0..(n - 1) |-> Wp(at(i).loc, at(i).alt, "target")],
        adj |-> [i \in 0..(n - 1) |-> SortedSeq({j \in 0..(n - 1) : <<i, j>> \in pairs})],
        w |-> [p \in pairs |->
                 LET hi == Max2(p[1], p[2])
                     lo == Min2(p[1], p[2])
                 IN CalculateCost(at(hi).loc, at(hi).alt, at(lo).loc, at(lo).alt)]]

(* ----------------------------- RoutePlanner --------------------------- *)
\* pathfinder.find_path for the chosen algorithm (A* is the default)
FindPath(algorithm, G, open, start, goal) ==
    IF algorithm = "thetastar"
    THEN [path |-> ThetaStarFindPath(G, start, goal), open |-> open, crash |-> FALSE]
    ELSE IF algorithm = "dstar" THEN DStarFindPath(G, open, start, goal)
    ELSE [path |-> AStarFindPath(G, start, goal), open |-> open, crash |-> FALSE]

\* a loop that appends every segment whole, its first node included
RECURSIVE FindLegsKeepJoin(_, _, _, _, _, _, _)
FindLegsKeepJoin(algorithm, G, open, current, wps, i, full) ==
    IF i > Len(wps) THEN [path |-> full, exc |-> "none"]
    ELSE LET Leg(r) ==
                 IF r.crash THEN [path |-> NoPath, exc |-> "KeyError"]
                 ELSE IF r.path = NoPath THEN [path |-> NoPath, exc |-> "none"]
                 ELSE FindLegsKeepJoin(algorithm, G, r.open, wps[i], wps, i + 1,
                                       full \o r.path)
         IN Leg(FindPath(algorithm, G, open, current, wps[i]))

\* the loop of find_path_to_waypoints: None as soon as a leg has no path
RECURSIVE FindLegs(_, _, _, _, _, _, _)
FindLegs(algorithm, G, open, current, wps, i, full) ==
    IF i > Len(wps) THEN [path |-> full, exc |-> "none"]
    ELSE LET Leg(r) ==
                 IF r.crash THEN [path |-> NoPath, exc |-> "KeyError"]
                 ELSE IF r.path = NoPath THEN [path |-> NoPath, exc |-> "none"]
                 ELSE FindLegs(algorithm, G, r.open, wps[i], wps, i + 1,
                               IF full # <<>> THEN full \o Tail(r.path) ELSE r.path)
         IN Leg(FindPath(algorithm, G, open, current, wps[i]))

\* a find_path_to_waypoints that heads straight for the last waypoint
FindPathToLastWaypoint(algorithm, G, start, wps) ==
    IF wps = <<>> THEN [path |-> <<start>>, exc |-> "none"]
    ELSE FindLegs(algorithm, G, {}, start, <<wps[Len(wps)]>>, 1, <<>>)

\* find_path_to_waypoints of AStar / ThetaStar / DStar
FindPathToWaypoints(algorithm, G, start, wps) ==
    IF wps = <<>> THEN [path |-> <<start>>, exc |-> "none"]
    ELSE FindLegs(algorithm, G, {}, start, wps, 1, <<>>)

\* ThetaStar.path_to_waypoints: a pair further apart than 300 m gets
\* max(1, min(5, int(distance / 250))) smoothstep-interpolated waypoints
LongSegment == 30
SegmentLength == 25
MaxIntermediate == 5
Intermediates(G, a, b) ==
    LET a1 == G.wp[a].alt
        a2 == G.wp[b].alt
        Points(num) ==
            [j \in 1..num |->
               Wp(MidLoc(G.wp[a].loc, G.wp[b].loc),
                  a1 + ((a2 - a1) * j * j * (3 * (num + 1) - 2 * j))
                         \div ((num + 1) * (num + 1) * (num + 1)),
                  "intermediate")]
        Split(distance) ==
            IF distance > LongSegment
            THEN Points(Max2(1, Min2(MaxIntermediate, distance \div SegmentLength)))
            ELSE <<>>
    IN Split(EuclideanDistance3d(G, a, b))

RECURSIVE ThetaWaypoints(_, _, _)
ThetaWaypoints(G, path, i) ==
    IF i >= Len(path) THEN <<>>
    ELSE Intermediates(G, path[i], path[i + 1]) \o <<G.wp[path[i + 1]]>>
         \o ThetaWaypoints(G, path, i + 1)

\* pathfinder.path_to_waypoints
PathToWaypoints(algorithm, G, path) ==
    IF algorithm = "thetastar" /\ Len(path) >= 2
    THEN <<G.wp[path[1]]>> \o ThetaWaypoints(G, path, 1)
    ELSE [i \in 1..Len(path) |-> G.wp[path[i]]]

\* the greedy loop with `cost <= best_cost`: the later target wins a tie
RECURSIVE NearestNeighborOrderLastTie(_, _, _, _)
NearestNeighborOrderLastTie(G, current, todo, done) ==
    IF Len(todo) = 0 THEN done
    ELSE LET cost(t) == EuclideanDistance3d(G, current, t)
             Visit(k) ==
                 NearestNeighborOrderLastTie(G, todo[k],
                     SubSeq(todo, 1, k - 1) \o SubSeq(todo, k + 1, Len(todo)),
                     Append(done, todo[k]))
         IN Visit(CHOOSE k \in 1..Len(todo) :
                     /\ \A j \in 1..Len(todo) : cost(todo[k]) <= cost(todo[j])
                     /\ \A j \in (k + 1)..Len(todo) : cost(todo[j]) > cost(todo[k]))

\* the greedy loop of _optimize_waypoint_order: nearest unvisited target by
\* 3D distance, the earlier one on a tie
RECURSIVE NearestNeighborOrder(_, _, _, _)
NearestNeighborOrder(G, current, todo, done) ==
    IF Len(todo) = 0 THEN done
    ELSE LET cost(t) == EuclideanDistance3d(G, current, t)
             Visit(k) ==
                 NearestNeighborOrder(G, todo[k],
                     SubSeq(todo, 1, k - 1) \o SubSeq(todo, k + 1, Len(todo)),
                     Append(done, todo[k]))
         IN Visit(CHOOSE k \in 1..Len(todo) :
                     /\ \A j \in 1..Len(todo) : cost(todo[k]) <= cost(todo[j])
                     /\ \A j \in 1..(k - 1) : cost(todo[j]) > cost(todo[k]))

\* RoutePlanner._optimize_waypoint_order; get_node_position raises KeyError
\* for a node id the graph does not have
OptimizeWaypointOrder(G, start, target_nodes) ==
    IF Len(target_nodes) <= 1 THEN [order |-> target_nodes, exc |-> "none"]
    ELSE IF \E i \in 1..Len(target_nodes) : ~HasNode(G, target_nodes[i])
    THEN [order |-> <<>>, exc |-> "KeyError"]
    ELSE [order |-> NearestNeighborOrder(G, start, target_nodes, <<>>), exc |-> "none"]

(* ------------------- RoutePlanner: landing synthesis ------------------ *)
SetType(wps, i, t) == [wps EXCEPT ![i].type = t]
\* list.insert(k, x) for the 1-based position pos the element ends up at
InsertAt(wps, pos, x) ==
    SubSeq(wps, 1, pos - 1) \o <<x>> \o SubSeq(wps, pos, Len(wps))
\* "for i in range(...)": waypoints from..to whose type is not kept become
\* landing_segment, at altitude alt when alt is given
MarkLanding(wps, from, to, keep, alt) ==
    [i \in 1..Len(wps) |->
        IF i >= from /\ i <= to /\ wps[i].type \notin keep
        THEN [wps[i] EXCEPT !.type = "landing_segment",
                            !.alt = IF alt = NoNode THEN @ ELSE alt]
        ELSE wps[i]]

\* last_target_idx (lines 152-157): the 1-based position of the last
\* waypoint of type target, 0 for None
LastTargetIndex(wps) ==
    LET targetIdx == {i \in 1..Len(wps) : wps[i].type = "target"}
    IN IF targetIdx = {} THEN 0
       ELSE CHOOSE i \in targetIdx : \A j \in targetIdx : j <= i

\* lines 159-273 of plan_single_drone_route
LandingSteps(m, wps, n, last) ==
    LET ft == m.finish_point_type
        lm == m.landing_mode
        ok(w) == [wps |-> w, exc |-> "none"]
    IN IF ft = "last_target"
       THEN IF last = 0 THEN ok(wps)
            ELSE IF lm = "vertical"
            THEN LET approach_altitude == Max2(DroneCaps.min_altitude, wps[last].alt)
                     w2 == IF last > 1
                           THEN MarkLanding(wps, last, n, {"depot", "target"}, approach_altitude)
                           ELSE wps
                     w3 == InsertAt(w2, last, Wp(wps[last].loc, DroneCaps.min_altitude,
                                                 "landing_approach"))
                 IN ok(SetType(w3, Len(w3), "finish"))
            ELSE IF lm = "gradual"
            THEN LET w2 == IF last > 1
                           THEN MarkLanding(wps, last, n, {"depot", "target"}, NoNode)
                           ELSE wps
                 IN ok(SetType(w2, n, "finish"))
            ELSE ok(wps)
       ELSE LET w1 == IF ft = "depot" THEN SetType(wps, n, "depot")
                      ELSE IF ft = "custom" /\ m.finish_point # NoWp
                      THEN SetType(wps, n, "finish")
                      ELSE wps
            IN IF last = 0 THEN ok(w1)
               ELSE IF lm = "vertical"
               THEN LET approach_altitude == Max2(DroneCaps.min_altitude, w1[last].alt)
                        w2 == MarkLanding(w1, last + 1, n, {"depot", "finish"},
                                          approach_altitude)
                        finish_location == IF m.finish_point # NoWp THEN m.finish_point
                                           ELSE m.depot
                        w3 == InsertAt(w2, Max2(1, n),
                                       Wp(finish_location.loc, DroneCaps.min_altitude,
                                          "landing_approach"))
                        final(w) == MarkLanding(w, last + 1, Len(w) - 2,
                                        {"depot", "finish", "landing_approach"},
                                        approach_altitude)
                    IN IF finish_location = NoWp THEN ok(w2)
                       ELSE IF ft = "depot"
                       THEN IF m.depot = NoWp
                            THEN [wps |-> <<>>, exc |-> "AttributeError"]
                            ELSE ok(final([w3 EXCEPT ![n + 1].type = "depot",
                                                     ![n + 1].alt = m.depot.alt]))
                       ELSE IF ft = "custom"
                       THEN IF m.finish_point = NoWp
                            THEN [wps |-> <<>>, exc |-> "AttributeError"]
                            ELSE ok(final([w3 EXCEPT ![n + 1].type = "finish",
                                                     ![n + 1].alt = m.finish_point.alt]))
                       ELSE ok(final(w3))
               ELSE IF lm = "gradual"
               THEN LET w2 == [i \in 1..n |->
                                 IF i > last /\ i < n
                                 THEN [w1[i] EXCEPT !.type = "landing_segment"]
                                 ELSE w1[i]]
                    IN ok(IF ft = "depot" THEN SetType(w2, n, "depot")
                          ELSE IF ft = "custom" /\ m.finish_point # NoWp
                          THEN SetType(w2, n, "finish")
                          ELSE w2)
               ELSE ok(w1)

\* lines 147-273 of plan_single_drone_route
LandingSynthesis(m, path_wps) ==
    LET Typed(wps) == LandingSteps(m, wps, Len(wps), LastTargetIndex(wps))
    IN Typed(IF m.depot # NoWp THEN SetType(path_wps, 1, "depot") ELSE path_wps)

(* ---------------- RoutePlanner.plan_single_drone_route ---------------- *)
\* MissionConstraints.require_return_to_depot keeps its default
RequireReturnToDepot == TRUE
IndexOf(seq, x) == CHOOSE i \in 1..Len(seq) : seq[i] = x /\ \A j \in 1..(i - 1) : seq[j] # x
Range(seq) == {seq[i] : i \in 1..Len(seq)}
\* Route.validation_result is None
NoVerdict == [present |-> FALSE, is_valid |-> TRUE, violations |-> <<>>, warnings |-> <<>>]
NoRoute == [waypoints |-> <<>>, drone_name |-> "", validation_result |-> NoVerdict]
\* Route(waypoints=..., drone_name=...)
NewRoute(wps, name) == [waypoints |-> wps, drone_name |-> name, validation_result |-> NoVerdict]

\* GraphBuilder(drone, constraints, weather_data, weather_manager=...): the
\* constructor has the parameters drone, constraints and weather_data, so
\* the call raises TypeError; kw is the case of a constructor that takes the
\* keyword
GraphBuilderInit(kw) == IF kw THEN "none" ELSE "TypeError"

\* m: the mission of the planner (the orchestrator's, or the temporary
\* one-aircraft mission); kw: GraphBuilder accepts weather_manager=.
\* Result kinds: "route", "none" (the call returned None), "raise".
PlanSingleDroneRoute(m, drone, algorithm, kw) ==
    LET none == [kind |-> "none", route |-> NoRoute, exc |-> "none"]
        raise(e) == [kind |-> "raise", route |-> NoRoute, exc |-> e]
    IN IF m.target_points = <<>> THEN none
       ELSE IF GraphBuilderInit(kw) # "none" THEN raise(GraphBuilderInit(kw))
       ELSE
       LET finish_point ==
               IF m.finish_point_type = "depot" /\ m.depot # NoWp THEN m.depot
               ELSE IF m.finish_point_type = "custom" /\ m.finish_point # NoWp
               THEN m.finish_point
               ELSE IF RequireReturnToDepot /\ m.depot # NoWp THEN m.depot
               ELSE NoWp
           base == (IF m.depot # NoWp THEN <<m.depot>> ELSE <<>>) \o m.target_points
           all_waypoints == IF finish_point # NoWp /\ finish_point \notin Range(base)
                            THEN Append(base, finish_point) ELSE base
           G == BuildWaypointGraph(m.no_fly_zones, all_waypoints, DroneCaps.max_range)
           start_node == 0
           finish_node == IF finish_point # NoWp
                          THEN IndexOf(all_waypoints, finish_point) - 1 ELSE NoNode
           Landed(landed) ==
               IF landed.exc # "none" THEN raise(landed.exc)
               ELSE [kind |-> "route", route |-> NewRoute(landed.wps, drone),
                     exc |-> "none"]
           Found(graph, found) ==
               IF found.exc # "none" THEN raise(found.exc)
               ELSE IF found.path = NoPath THEN none
               ELSE Landed(LandingSynthesis(m, PathToWaypoints(algorithm, graph,
                                                               found.path)))
           Ordered(graph, ordered) ==
               IF ordered.exc # "none" THEN raise(ordered.exc)
               ELSE Found(graph,
                          FindPathToWaypoints(algorithm, graph, start_node,
                              IF m.finish_point_type # "last_target"
                                 /\ finish_node # NoNode
                              THEN Append(ordered.order, finish_node)
                              ELSE ordered.order))
           Built(graph) ==
               Ordered(graph, OptimizeWaypointOrder(graph, start_node,
                                  [i \in 1..Len(m.target_points) |-> i]))
       IN Built(G)

(* ------------------------------ VRPSolver ----------------------------- *)
RECURSIVE Perms(_)
Perms(S) ==
    IF S = {} THEN {<<>>}
    ELSE UNION {{<<x>> \o p : p \in Perms(S \ {x})} : x \in S}

\* What routing.SolveWithParameters can answer for k vehicles: every node
\* other than node 0 on exactly one vehicle's route, in some order
RECURSIVE VehicleRoutes(_, _)
VehicleRoutes(S, k) ==
    IF k = 0 THEN (IF S = {} THEN {<<>>} ELSE {})
    ELSE UNION {{<<p>> \o rest : p \in Perms(T), rest \in VehicleRoutes(S \ T, k - 1)}
                : T \in SUBSET S}

\* no solution found within the time limit
NoSolution == <<<<0>>>>

\* the answers of the routing solver for a mission: the distance matrix has
\* a row for the depot only when there is one, node 0 is the routing depot
RoutingAnswers(nDrones, nTargets, hasDepot) ==
    LET size == (IF hasDepot THEN 1 ELSE 0) + nTargets
    IN {NoSolution} \cup VehicleRoutes(1..(size - 1), nDrones)

\* target indices in the order of a stable sort by distance from the depot
RECURSIVE SortByDepotDistance(_, _)
SortByDepotDistance(depot, todo) ==
    IF todo = <<>> THEN <<>>
    ELSE LET d(i) == Haversine(depot.loc, todo[i].loc)
             Take(k) ==
                 <<todo[k].idx>> \o
                 SortByDepotDistance(depot, SubSeq(todo, 1, k - 1)
                                            \o SubSeq(todo, k + 1, Len(todo)))
         IN Take(CHOOSE k \in 1..Len(todo) :
                    /\ \A j \in 1..Len(todo) : d(k) <= d(j)
                    /\ \A j \in 1..(k - 1) : d(j) > d(k))

\* VRPSolver._greedy_fallback_assignment
GreedyFallbackAssignment(drones, targets, depot) ==
    LET mine(sorted, v) == {i \in 1..Len(sorted) : (i - 1) % Len(drones) = v - 1}
        Deal(sorted) ==
            [v \in 1..Len(drones) |-> [k \in 1..Cardinality(mine(sorted, v)) |->
                                          sorted[(k - 1) * Len(drones) + v]]]
    IN Deal(IF depot # NoWp
            THEN SortByDepotDistance(depot,
                     [i \in 1..Len(targets) |-> [idx |-> i - 1, loc |-> targets[i].loc]])
            ELSE <<>>)

\* the redistribution at the end of solve
Redistribute(drones, lists) ==
    LET Share(all) ==
            LET per == Len(all) \div Len(drones)
                remainder == Len(all) % Len(drones)
                count(v) == per + (IF v - 1 < remainder THEN 1 ELSE 0)
                before(v) == (v - 1) * per + Min2(v - 1, remainder)
            IN [v \in 1..Len(drones) |->
                  SubSeq(all, before(v) + 1, before(v) + count(v))]
    IN Share(SortedSeq(UNION {Range(lists[v]) : v \in 1..Len(lists)}))

\* VRPSolver.solve: one list of target indices per aircraft, in fleet order;
\* the empty sequence is the empty dictionary
VRPSolve(drones, targets, depot, answer) ==
    IF targets = <<>> \/ drones = <<>> THEN <<>>
    ELSE IF answer = NoSolution THEN GreedyFallbackAssignment(drones, targets, depot)
    ELSE LET lists == [v \in 1..Len(drones) |->
                          [k \in 1..Len(answer[v]) |-> answer[v][k] - 1]]
             drones_with_targets == Cardinality({v \in 1..Len(drones) : lists[v] # <<>>})
         IN IF Len(targets) < Len(drones) /\ drones_with_targets < Len(drones)
            THEN Redistribute(drones, lists)
            ELSE lists

(* ----------------------------- WeatherManager ------------------------ *)
\* Query points lie on one meridian; a latitude is given in units of 500 m
\* from the southern end, so the haversine distance of two points is the
\* difference of their latitudes.
\* MIN_WEATHER_DISTANCE = 5000.0 m
MinWeatherDistance == 10
\* WEATHER_GRID_RESOLUTION = 1000.0 m
WeatherGridResolution == 2

\* Python None for a WeatherConditions
NoSample == [at |-> -1]
\* the WeatherConditions the provider builds for a query point
Sample(latitude) == [at |-> latitude]

\* Python round(n / d): to the nearest integer, a half to the even one
RoundHalfEven(n, d) ==
    LET Pick(q, r) == IF 2 * r < d THEN q
                      ELSE IF 2 * r > d THEN q + 1
                      ELSE IF q % 2 = 0 THEN q ELSE q + 1
    IN Pick(n \div d, n % d)

\* WeatherManager._round_to_grid
RoundToGrid(latitude) ==
    RoundHalfEven(latitude, WeatherGridResolution) * WeatherGridResolution

\* WeatherManager._haversine_distance along the meridian
WeatherDistance(lat1, lat2) == Abs(lat2 - lat1)

\* weather_cache is a dict: a sequence of <<key, sample>> in insertion order
CacheKeys(cache) == {cache[i][1] : i \in 1..Len(cache)}
CacheGet(cache, key) == cache[CHOOSE i \in 1..Len(cache) : cache[i][1] = key][2]

\* WeatherManager._find_nearby_weather: the loop from entry i on
RECURSIVE FindNearbyFrom(_, _, _, _, _)
FindNearbyFrom(cache, latitude, i, min_distance, closest_weather) ==
    IF i > Len(cache) THEN closest_weather
    ELSE LET Compare(distance) ==
                 IF distance < min_distance /\ distance < MinWeatherDistance
                 THEN FindNearbyFrom(cache, latitude, i + 1, distance, cache[i][2])
                 ELSE FindNearbyFrom(cache, latitude, i + 1, min_distance, closest_weather)
         IN Compare(WeatherDistance(latitude, cache[i][1]))

FindNearbyWeather(cache, latitude) == FindNearbyFrom(cache, latitude, 1, Inf, NoSample)

\* WeatherManager.__init__
WeatherManagerInit(initial_weather_data, use_weather) ==
    [made |-> TRUE, use_weather |-> use_weather, weather_cache |-> initial_weather_data,
     fetched_points |-> {}, queries |-> 0, failed |-> {},
     last |-> [latitude |-> -1, grid_key |-> -1, answer |-> NoSample, called |-> FALSE]]

\* the manager after get_weather_for_point answered without the provider
Answered(W, latitude, grid_key, answer) ==
    [W EXCEPT !.queries = @ + 1,
              !.last = [latitude |-> latitude, grid_key |-> grid_key,
                        answer |-> answer, called |-> FALSE]]

\* the variant that writes the fetched sample over the first cache entry
FetchedOverwriting(W, latitude, grid_key, provided) ==
    IF provided # NoSample
    THEN [W EXCEPT !.weather_cache = IF @ = <<>> THEN <<<<grid_key, provided>>>>
                                     ELSE [@ EXCEPT ![1] = <<grid_key, provided>>],
                   !.fetched_points = @ \cup {grid_key},
                   !.queries = @ + 1,
                   !.last = [latitude |-> latitude, grid_key |-> grid_key,
                             answer |-> provided, called |-> TRUE]]
    ELSE [W EXCEPT !.queries = @ + 1,
                   !.failed = @ \cup {grid_key},
                   !.last = [latitude |-> latitude, grid_key |-> grid_key,
                             answer |-> NoSample, called |-> TRUE]]

\* the manager after weather_provider.get_weather returned `provided`;
\* failed is the record of the grid keys whose request returned None
Fetched(W, latitude, grid_key, provided) ==
    IF provided # NoSample
    THEN [W EXCEPT !.weather_cache = Append(@, <<grid_key, provided>>),
                   !.fetched_points = @ \cup {grid_key},
                   !.queries = @ + 1,
                   !.last = [latitude |-> latitude, grid_key |-> grid_key,
                             answer |-> provided, called |-> TRUE]]
    ELSE [W EXCEPT !.queries = @ + 1,
                   !.failed = @ \cup {grid_key},
                   !.last = [latitude |-> latitude, grid_key |-> grid_key,
                             answer |-> NoSample, called |-> TRUE]]

\* WeatherManager.get_weather_for_point; `provided` is what the provider
\* returns if it is asked (a sample, or None when the request fails)
GetWeatherForPoint(W, latitude, provided) ==
    LET Lookup(grid_key, cached_weather) ==
            IF grid_key \in CacheKeys(W.weather_cache)
            THEN Answered(W, latitude, grid_key, CacheGet(W.weather_cache, grid_key))
            ELSE IF cached_weather # NoSample
            THEN Answered(W, latitude, grid_key, cached_weather)
            ELSE IF grid_key \notin W.fetched_points
            THEN Fetched(W, latitude, grid_key, provided)
            ELSE Answered(W, latitude, grid_key, NoSample)
    IN IF ~W.use_weather THEN Answered(W, latitude, RoundToGrid(latitude), NoSample)
       ELSE Lookup(RoundToGrid(latitude), FindNearbyWeather(W.weather_cache, latitude))

(* ---------------------------- MissionOptimizer ------------------------ *)
MaxSwaps == 1
Swap(seq, i, j) == [seq EXCEPT ![i] = seq[j], ![j] = seq[i]]
\* the orders a metaheuristic can leave: up to k exchanges of two waypoints
RECURSIVE Reorderings(_, _)
Reorderings(seq, k) ==
    IF k = 0 THEN {seq}
    ELSE LET Exchange(prev) ==
                 prev \cup {Swap(q, i, j) : q \in prev,
                                           i \in 1..Len(seq), j \in 1..Len(seq)}
         IN Exchange(Reorderings(seq, k - 1))

\* _check_no_fly_zones of aco_optimizer / pso_optimizer returns 0
NoFlyPenaltyFree(zones, wps) ==
    /\ \A i \in 1..Len(wps), z \in 1..Len(zones) :
          ~ZoneContains(zones[z], wps[i].loc, wps[i].alt)
    /\ \A i \in 1..(Len(wps) - 1), z \in 1..Len(zones) :
          ~SegmentInZone(zones[z], wps[i].loc, wps[i].alt, wps[i + 1].loc, wps[i + 1].alt)

Middle(wps) == SubSeq(wps, 2, Len(wps) - 1)
WithMiddle(wps, mid) == <<wps[1]>> \o mid \o <<wps[Len(wps)]>>

\* ACOOptimizer.optimize: the best sampled order of the middle waypoints, of
\* finite cost; the route itself when there are fewer than two middle
\* waypoints or no sampled order has a finite cost
ACOOptimize(route, zones) ==
    LET wps == route.waypoints
        Best(finite) ==
            IF Len(wps) < 3 \/ Len(Middle(wps)) < 2 \/ finite = {} THEN {route}
            ELSE {NewRoute(WithMiddle(wps, q), route.drone_name) : q \in finite}
    IN Best({q \in Reorderings(Middle(wps), MaxSwaps) :
                NoFlyPenaltyFree(zones, WithMiddle(wps, q))})

\* PSOOptimizer.optimize: the best particle, an order of the middle waypoints
PSOOptimize(route, zones) ==
    LET wps == route.waypoints
    IN IF Len(wps) < 3 THEN {route}
       ELSE {NewRoute(WithMiddle(wps, q), route.drone_name) :
                q \in Reorderings(Middle(wps), MaxSwaps)}

\* random.shuffle(middle): every order of the middle waypoints
Shuffles(seq) ==
    {[k \in 1..Len(seq) |-> seq[p[k]]] : p \in Perms(1..Len(seq))}

\* seq[a:b] of a Python list, a and b not negative
PySlice(seq, a, b) == SubSeq(seq, a + 1, Min2(b, Len(seq)))

\* [wp for wp in rest if wp not in segment]; Waypoint is a dataclass, "in"
\* compares the fields
RECURSIVE NotInSegment(_, _)
NotInSegment(rest, segment) ==
    IF rest = <<>> THEN <<>>
    ELSE (IF Head(rest) \in Range(segment) THEN <<>> ELSE <<Head(rest)>>)
         \o NotInSegment(Tail(rest), segment)

\* the second loop of _crossover: child.insert(-1, wp) for the waypoints of
\* the other parent found neither in the segment nor in child[1:-1]
RECURSIVE InsertMissing(_, _, _)
InsertMissing(child, rest, segment) ==
    IF rest = <<>> THEN child
    ELSE IF /\ Head(rest) \notin Range(segment)
            /\ Head(rest) \notin Range(SubSeq(child, 2, Len(child) - 1))
         THEN InsertMissing(SubSeq(child, 1, Len(child) - 1) \o <<Head(rest)>>
                                \o <<child[Len(child)]>>,
                            Tail(rest), segment)
         ELSE InsertMissing(child, Tail(rest), segment)

\* one child of _crossover: start, the other parent's middle without the
\* waypoints of the segment, the segment, end
CrossoverChild(start, end, segment, other) ==
    InsertMissing(<<start>> \o NotInSegment(Middle(other), segment) \o segment,
                  Middle(other), segment) \o <<end>>

\* GeneticOptimizer._crossover for the drawn i <= j (list indices from 0):
\* the two children
Crossover(parent1, parent2, i, j) ==
    IF Len(parent1) < 3 THEN {parent1, parent2}
    ELSE {CrossoverChild(parent1[1], parent1[Len(parent1)],
                         PySlice(parent1, i, j + 1), parent2),
          CrossoverChild(parent1[1], parent1[Len(parent1)],
                         IF Len(parent2) > j THEN PySlice(parent2, i, j + 1) ELSE <<>>,
                         parent1)}

\* GeneticOptimizer._mutate: the individual after the two draws
Mutations(waypoints) ==
    IF Len(waypoints) < 3 THEN {waypoints}
    ELSE {Swap(waypoints, i + 1, j + 1) :
             i \in 1..(Len(waypoints) - 2), j \in 1..(Len(waypoints) - 2)}

\* generations of GeneticOptimizer.optimize followed here
MaxGenerations == 1

\* the individuals a population can hold after k generations: parents are
\* tournament winners, crossed over or not, mutated or not
RECURSIVE Evolve(_, _)
Evolve(population, k) ==
    IF k = 0 THEN population
    ELSE LET Mutated(new_population) ==
                 new_population \cup UNION {Mutations(w) : w \in new_population}
             Bred(parents) ==
                 parents \cup UNION {UNION {UNION {Crossover(a, b, i, j) :
                                                     j \in i..(Len(a) - 2)} :
                                              i \in 1..(Len(a) - 2)} :
                                       a \in parents, b \in parents}
         IN Evolve(Mutated(Bred(population)), k - 1)

\* GeneticOptimizer.optimize: the individual of highest fitness of the last
\* population; _fitness weighs length, energy and turns and knows no zone
GeneticOptimize(route) ==
    LET wps == route.waypoints
    IN IF Len(wps) < 3 THEN {route}
       ELSE {NewRoute(w, route.drone_name) :
                w \in Evolve({WithMiddle(wps, q) : q \in Shuffles(Middle(wps))},
                             MaxGenerations)}

\* the body of the loop of MissionOptimizer.optimize_routes for one route;
\* GeneticOptimizer(route, drone, constraints=...) raises TypeError, which
\* the loop catches, keeping the route
OptimizeRoute(route, zones, optimization_algorithm) ==
    IF Len(route.waypoints) > 2
    THEN IF optimization_algorithm = "aco" THEN ACOOptimize(route, zones)
         ELSE IF optimization_algorithm = "pso" THEN PSOOptimize(route, zones)
         ELSE {route}
    ELSE {route}

\* MissionOptimizer.optimize_routes: the possible route maps
OptimizeRoutes(routes, zones, optimization_algorithm) ==
    {f \in [DOMAIN routes -> UNION {OptimizeRoute(routes[d], zones, optimization_algorithm)
                                     : d \in DOMAIN routes}] :
        \A d \in DOMAIN routes :
            f[d] \in OptimizeRoute(routes[d], zones, optimization_algorithm)}

(* ---------------------------- ConstraintChecker ---------------------- *)
RECURSIVE ConcatAll(_)
ConcatAll(ss) == IF ss = <<>> THEN <<>> ELSE Head(ss) \o ConcatAll(Tail(ss))

\* an entry of ValidationResult.violations / warnings; waypoint_index None is NoNode
Violation(type, waypoint_index) == [type |-> type, waypoint_index |-> waypoint_index]

\* ZoneChecker.check_route: waypoints first, then segments
ZoneCheckRoute(wps, zones) ==
    LET n == Len(wps)
        nz == Len(zones)
    IN ConcatAll([i \in 1..n |-> ConcatAll([z \in 1..nz |->
           IF ZoneContains(zones[z], wps[i].loc, wps[i].alt)
           THEN <<Violation("no_fly_zone", i - 1)>> ELSE <<>>])])
       \o ConcatAll([i \in 1..(n - 1) |-> ConcatAll([z \in 1..nz |->
           IF SegmentInZone(zones[z], wps[i].loc, wps[i].alt, wps[i + 1].loc, wps[i + 1].alt)
           THEN <<Violation("no_fly_zone", i - 1)>> ELSE <<>>])])

\* abs(altitude_change) / (distance / speed) > rate, altitudes and distances
\* in the same unit
RateExceeded(altitude_change, distance, speed, rate) ==
    distance > 0 /\ Abs(altitude_change) * speed > rate * distance

\* AltitudeChecker.check_route (the mission sets no altitude limits of its own)
AltitudeCheckRoute(wps) ==
    ConcatAll([i \in 1..Len(wps) |->
        LET w == wps[i]
            exempt == w.type \in {"depot", "finish", "landing_segment", "landing_approach"}
            prev == wps[i - 1]
            altitude_change == w.alt - prev.alt
            distance == Haversine(prev.loc, w.loc)
            skip_descent_check ==
                \/ w.type \in {"landing_segment", "landing_approach", "finish", "depot"}
                \/ prev.type \in {"landing_segment", "landing_approach"}
        IN (IF ~exempt /\ w.alt < DroneCaps.min_altitude
            THEN <<Violation("altitude", i - 1)>> ELSE <<>>)
           \o (IF w.alt > DroneCaps.max_altitude
               THEN <<Violation("altitude", i - 1)>> ELSE <<>>)
           \o (IF i > 1 /\ altitude_change > 0
                  /\ RateExceeded(altitude_change, distance, DroneCaps.max_speed,
                                  DroneCaps.climb_rate)
               THEN <<Violation("altitude", i - 1)>> ELSE <<>>)
           \o (IF i > 1 /\ altitude_change < 0 /\ ~skip_descent_check
                  /\ RateExceeded(altitude_change, distance, DroneCaps.max_speed,
                                  DroneCaps.descent_rate)
               THEN <<Violation("altitude", i - 1)>> ELSE <<>>)])

\* Drone.estimate_flight_time in thirds of a second (lengths in units of
\* 10 m, speeds in m/s)
EstimateFlightTime3(distance, altitude_change) ==
    Max2((30 * distance) \div DroneCaps.max_speed,
         (30 * Abs(altitude_change)) \div DroneCaps.climb_rate)

\* Route.calculate_metrics total_energy in calm air, as the flight time at
\* cruise power
RECURSIVE TotalTime3(_, _)
TotalTime3(wps, i) ==
    IF i >= Len(wps) THEN 0
    ELSE EstimateFlightTime3(Haversine(wps[i].loc, wps[i + 1].loc),
                             wps[i + 1].alt - wps[i].alt)
         + TotalTime3(wps, i + 1)

\* horizontal length of the route from waypoint i on
RECURSIVE TotalDistance(_, _)
TotalDistance(wps, i) ==
    IF i >= Len(wps) THEN 0
    ELSE Haversine(wps[i].loc, wps[i + 1].loc) + TotalDistance(wps, i + 1)

\* Route.calculate_metrics: one risk factor per segment with a weather
\* sample (risk, in tenths), none without; avg_speed in units of 10 m/s
CalculateMetrics(wps, risk) ==
    LET risk_factors == [i \in 1..(Len(wps) - 1) |-> risk]
        Metrics(total_distance, total_time) ==
            [total_distance |-> total_distance,
             total_time |-> total_time,
             total_energy |-> total_time,
             risk_score |-> IF risk_factors = <<>> THEN 0 ELSE Min2(10, risk),
             avg_speed |-> IF total_time > 0 THEN (3 * total_distance) \div total_time ELSE 0,
             waypoint_count |-> Len(wps)]
    IN Metrics(TotalDistance(wps, 1), TotalTime3(wps, 1))

\* the comparison with `>=` for the capacity test
EnergyCheckAtLeast(total_energy, battery_capacity) ==
    IF total_energy >= battery_capacity THEN [is_valid |-> FALSE, warning |-> FALSE]
    ELSE IF 10 * total_energy > 9 * battery_capacity
    THEN [is_valid |-> TRUE, warning |-> TRUE]
    ELSE [is_valid |-> TRUE, warning |-> FALSE]

\* the if / elif / else of EnergyChecker.check_route: the result dictionary's
\* is_valid and whether it has a "warning" entry
EnergyCheck(total_energy, battery_capacity) ==
    IF total_energy > battery_capacity THEN [is_valid |-> FALSE, warning |-> FALSE]
    ELSE IF 10 * total_energy > 9 * battery_capacity
    THEN [is_valid |-> TRUE, warning |-> TRUE]
    ELSE [is_valid |-> TRUE, warning |-> FALSE]

\* EnergyChecker.check_route: "violation", "warning" (above 90 %) or "ok"
EnergyCheckRoute(wps) ==
    LET Compare(result) ==
            IF ~result.is_valid THEN "violation"
            ELSE IF result.warning THEN "warning"
            ELSE "ok"
    IN Compare(EnergyCheck(TotalTime3(wps, 1), DroneCaps.endurance3))

\* DubinsAirplane.calculate_path returns None (15 m/s assumed)
DubinsInfeasible(w1, w2) ==
    LET altitude_change == w2.alt - w1.alt
        distance == Haversine(w1.loc, w2.loc)
    IN \/ altitude_change > 0
          /\ RateExceeded(altitude_change, distance, 15, DroneCaps.climb_rate)
       \/ altitude_change < 0
          /\ RateExceeded(altitude_change, distance, 15, DroneCaps.descent_rate)

\* KinematicsChecker.check_route
KinematicsCheckRoute(wps) ==
    ConcatAll([i \in 1..(Len(wps) - 1) |->
        IF DubinsInfeasible(wps[i], wps[i + 1])
        THEN <<Violation("kinematics", NoNode)>> ELSE <<>>])

\* an add_violation that records the entries and leaves is_valid alone
AddViolationsKeepValid(result, entries) ==
    [result EXCEPT !.violations = @ \o entries]

\* ValidationResult.add_violation for each entry, starting from is_valid True
AddViolations(result, entries) ==
    IF entries = <<>> THEN result
    ELSE [result EXCEPT !.is_valid = FALSE, !.violations = @ \o entries]

\* ConstraintChecker.validate_route followed by to_dict
ValidateRoute(route, zones) ==
    LET wps == route.waypoints
        fresh == [present |-> TRUE, is_valid |-> TRUE, violations |-> <<>>,
                  warnings |-> <<>>]
        Kinematics(r4) == AddViolations(r4, KinematicsCheckRoute(wps))
        Warned(energy, r3) ==
            Kinematics(IF energy = "warning"
                       THEN [r3 EXCEPT !.warnings = @ \o <<Violation("energy", NoNode)>>]
                       ELSE r3)
        Energy(energy, r2) ==
            Warned(energy, IF energy = "violation"
                           THEN AddViolations(r2, <<Violation("energy", NoNode)>>)
                           ELSE r2)
        Altitude(r1) == Energy(EnergyCheckRoute(wps),
                               AddViolations(r1, AltitudeCheckRoute(wps)))
    IN IF wps = <<>> THEN AddViolations(fresh, <<Violation("empty_route", NoNode)>>)
       ELSE Altitude(AddViolations(fresh, ZoneCheckRoute(wps, zones)))

(* ------------------------------- state -------------------------------- *)
VARIABLES
    mission,        \* the Mission owned by the orchestrator
    weather_data,   \* MissionOrchestrator.weather_data: "None" or "dict"
    builder_kw,     \* GraphBuilder.__init__ accepts weather_manager=
    outcome,        \* what the last plan_mission call did
    calls,          \* plan_mission calls made so far
    pf,             \* a planner on a graph and what find_path answered
    vrp,            \* a VRPSolver and what solve answered
    opt,            \* a route optimizer, its input route and what optimize answered
    wm,             \* a WeatherManager, its client and the last query's answer
    cm,             \* a CostModel, its constraints and what is_valid_edge answered
    ec              \* an EnergyChecker call: the route, the aircraft and the verdict

vars == <<mission, weather_data, builder_kw, outcome, calls, pf, vrp, opt, wm, cm, ec>>

EmptyMap == <<>>
\* kind: "idle", "returned" (routes, error_message) or "raised" (exc);
\* error is the error message as a sequence of lines, <<>> for None;
\* assigned maps every aircraft to the target indices it was given
\* no plan_mission call made
NoArgs == [algorithm |-> "none", optimization_algorithm |-> "None",
           landing_mode |-> "None", finish_point_type |-> "None", finish_point |-> NoWp]
\* args: the arguments of the call; planned: the aircraft with a route before
\* the optimization stage of the call
NoOutcome == [kind |-> "idle", routes |-> EmptyMap, error |-> <<>>,
              vrp_invoked |-> FALSE, planner_invoked |-> FALSE,
              precheck_passed |-> FALSE, assigned |-> EmptyMap, exc |-> "none",
              args |-> NoArgs, planned |-> {}]

TargetSeqs == {[i \in 1..n |-> Wp(i, TargetAlt(i), "target")] : n \in 0..MaxTargets}
\* a depot installed by set_depot has type depot, one passed to the
\* constructor keeps the Waypoint default type
DepotChoices == {NoWp, Wp(DepotLoc, GroundAlt, "depot"), Wp(DepotLoc, GroundAlt, "target")}
FinishChoices == {NoWp, Wp(FinishLoc, GroundAlt, "finish")}
\* constraints.no_fly_zones: a list of up to MaxZones catalogue zones
RECURSIVE PickZones(_, _)
PickZones(from, k) ==
    IF k = 0 \/ from > Len(ZoneCatalogue) THEN {<<>>}
    ELSE PickZones(from + 1, k)
         \cup {<<ZoneCatalogue[from]>> \o r : r \in PickZones(from + 1, k - 1)}
ZoneLists == PickZones(1, MaxZones)

NoPlanner == [algorithm |-> "none", G |-> <<>>, start |-> NoNode, goal |-> NoNode,
              finds |-> 0, path |-> NoPath, open |-> {}, crash |-> FALSE]
NoVrp == [drones |-> 0, targets |-> 0, depot |-> FALSE, done |-> FALSE,
          fallback |-> FALSE, assignments |-> <<>>]

NoOptimizer == [algorithm |-> "none", route |-> <<>>, zones |-> <<>>,
                done |-> FALSE, result |-> <<>>]

\* no WeatherManager under observation
NoWeatherManager == [made |-> FALSE, use_weather |-> FALSE, weather_cache |-> <<>>,
                     fetched_points |-> {}, queries |-> 0, failed |-> {},
                     last |-> [latitude |-> -1, grid_key |-> -1,
                               answer |-> [at |-> -1], called |-> FALSE]]

\* no CostModel under observation
NoCostModel == [made |-> FALSE, constraints |-> Constraints(<<>>, NoAlt, NoAlt),
                weather |-> NoConditions, called |-> FALSE, edge |-> <<>>,
                answer |-> Passed]

\* route.metrics is None
NoMetrics == -1
\* no EnergyChecker call under observation
NoEnergyCheck == [waypoints |-> <<>>, metrics |-> NoMetrics, battery_capacity |-> 0,
                  checked |-> FALSE, total_energy |-> 0, violations |-> <<>>,
                  warnings |-> <<>>]

\* the route options of a Mission as constructed
MissionDefaults == [finish_point |-> NoWp, finish_point_type |-> "depot",
                    landing_mode |-> "vertical"]

\* a Mission as constructed (no routes), an orchestrator built with or
\* without initial weather data
Init ==
    /\ \E n \in 0..MaxDrones, tp \in TargetSeqs, dp \in DepotChoices, zs \in ZoneLists :
         mission = [drones |-> SubSeq(Drones, 1, n), target_points |-> tp,
                    depot |-> dp, no_fly_zones |-> zs,
                    finish_point |-> MissionDefaults.finish_point,
                    finish_point_type |-> MissionDefaults.finish_point_type,
                    landing_mode |-> MissionDefaults.landing_mode, routes |-> EmptyMap]
    /\ weather_data \in {"None", "dict"}
    /\ builder_kw \in BOOLEAN
    /\ outcome = NoOutcome
    /\ calls = 0
    /\ ec = NoEnergyCheck
    /\ cm = NoCostModel
    /\ opt = NoOptimizer
    /\ wm = NoWeatherManager
    /\ pf = NoPlanner
    /\ vrp = NoVrp

\* the algorithm argument of plan_mission / plan_single_drone_route
Algorithms == {"astar", "thetastar", "dstar"}

(* ---------------- MissionOrchestrator: no-fly pre-check --------------- *)
\* a line of the error message
Line(kind, subject, index, zone) ==
    [kind |-> kind, subject |-> subject, index |-> index, zone |-> zone]

\* a pre-check that looks at the target points only
CheckTargetPointsOnly(m) ==
    LET zl == m.no_fly_zones
    IN ConcatAll([idx \in 1..Len(m.target_points) |-> ConcatAll([z \in 1..Len(zl) |->
           IF ZoneContains(zl[z], m.target_points[idx].loc, m.target_points[idx].alt)
           THEN <<Line("in_zone", "Target point", idx, zl[z].name)>> ELSE <<>>])])

\* _check_target_points_against_zones: one entry per (point, zone), depot first
CheckTargetPointsAgainstZones(m) ==
    LET zl == m.no_fly_zones
        depotHits == IF m.depot = NoWp THEN <<>>
                     ELSE ConcatAll([z \in 1..Len(zl) |->
                              IF ZoneContains(zl[z], m.depot.loc, m.depot.alt)
                              THEN <<Line("in_zone", "Depot", 0, zl[z].name)>> ELSE <<>>])
    IN depotHits
       \o ConcatAll([idx \in 1..Len(m.target_points) |-> ConcatAll([z \in 1..Len(zl) |->
              IF ZoneContains(zl[z], m.target_points[idx].loc, m.target_points[idx].alt)
              THEN <<Line("in_zone", "Target point", idx, zl[z].name)>> ELSE <<>>])])

(* --------------------- MissionOrchestrator.plan_mission --------------- *)
\* lines 65-70: options given to plan_mission overwrite the mission's
ApplyOverrides(m, lm, ft, fp) ==
    [m EXCEPT !.landing_mode = IF lm = "None" THEN @ ELSE lm,
              !.finish_point_type = IF ft = "None" THEN @ ELSE ft,
              !.finish_point = IF fp = NoWp THEN @ ELSE fp]

\* lines 124-146: the route of an aircraft without targets, when there is a depot
MinimalRoute(m, drone) ==
    NewRoute(<<m.depot>>
             \o (IF m.finish_point_type = "custom" /\ m.finish_point # NoWp
                    /\ m.finish_point.loc # m.depot.loc
                 THEN <<m.finish_point>> ELSE <<>>),
             drone)

\* the planning stage in progress: routes, error lines, an escaped exception
Planning(routes, error, exc, planner_invoked) ==
    [routes |-> routes, error |-> error, exc |-> exc, planner_invoked |-> planner_invoked]

\* lines 119-193: the loop over the fleet, from aircraft v on
RECURSIVE PlanFleet(_, _, _, _, _, _, _)
PlanFleet(m, wd, kw, algorithm, lists, v, acc) ==
    IF v > Len(m.drones) \/ acc.exc # "none" THEN acc
    ELSE
    LET drone == m.drones[v]
        target_indices == lists[v]
        drone_targets == [k \in 1..Len(target_indices) |-> m.target_points[target_indices[k] + 1]]
        temp_mission == [m EXCEPT !.drones = <<drone>>, !.target_points = drone_targets,
                                  !.routes = EmptyMap]
        next(r) ==
            IF target_indices = <<>>
            THEN IF m.depot # NoWp
                 THEN [acc EXCEPT !.routes = (drone :> MinimalRoute(m, drone)) @@ @]
                 ELSE acc
            ELSE IF r.kind = "raise"
            THEN [acc EXCEPT !.exc = r.exc, !.planner_invoked = TRUE]
            \* self.weather_data.update(...) on the orchestrator's weather_data
            ELSE IF wd = "None"
            THEN [acc EXCEPT !.exc = "AttributeError", !.planner_invoked = TRUE]
            ELSE IF r.kind = "route"
            THEN [acc EXCEPT !.routes = (drone :> r.route) @@ @, !.planner_invoked = TRUE]
            ELSE [acc EXCEPT !.error = Append(@, Line("failed_for", drone, 0, "")),
                             !.planner_invoked = TRUE]
    IN PlanFleet(m, wd, kw, algorithm, lists, v + 1,
                 next(PlanSingleDroneRoute(temp_mission, drone, algorithm, kw)))

\* lines 85-200.  stage: "raise", "return" (the early return of line 109) or
\* "planned"
PlanRoutes(m, wd, kw, algorithm, answer) ==
    LET base == [NoOutcome EXCEPT !.precheck_passed = TRUE]
        all == [k \in 1..Len(m.target_points) |-> k - 1]
    IN IF Len(m.drones) = 1
       THEN LET drone == m.drones[1]
                o == [base EXCEPT !.planner_invoked = TRUE, !.assigned = (drone :> all)]
                Single(r) ==
                    IF r.kind = "raise"
                    THEN [stage |-> "raise", o |-> [o EXCEPT !.exc = r.exc]]
                    ELSE IF r.kind = "route"
                    THEN [stage |-> "planned",
                          o |-> [o EXCEPT !.routes = (drone :> r.route)]]
                    ELSE [stage |-> "planned",
                          o |-> [o EXCEPT !.error = <<Line("no_route_found", "", 0, "")>>]]
            IN Single(PlanSingleDroneRoute(m, drone, algorithm, kw))
       ELSE LET o == [base EXCEPT !.vrp_invoked = TRUE]
                Fleet(lists, acc) ==
                    LET o2 == [o EXCEPT !.planner_invoked = acc.planner_invoked,
                                        !.assigned = [d \in Range(m.drones) |->
                                                         lists[IndexOf(m.drones, d)]]]
                    IN IF acc.exc # "none"
                       THEN [stage |-> "raise", o |-> [o2 EXCEPT !.exc = acc.exc]]
                       ELSE [stage |-> "planned",
                             o |-> [o2 EXCEPT
                                      !.routes = acc.routes,
                                      !.error = IF acc.routes = EmptyMap /\ acc.error = <<>>
                                                THEN <<Line("no_routes_multi", "", 0, "")>>
                                                ELSE acc.error]]
                Assigned(lists) ==
                    IF lists = <<>>
                    THEN [stage |-> "return",
                          o |-> [o EXCEPT !.error = <<Line("vrp_failed", "", 0, "")>>]]
                    ELSE Fleet(lists, PlanFleet(m, wd, kw, algorithm, lists, 1,
                                                Planning(EmptyMap, <<>>, "none", FALSE)))
            IN Assigned(VRPSolve(m.drones, m.target_points, m.depot, answer))

\* lines 230-234
ValidateRoutes(routes, zones) ==
    [d \in DOMAIN routes |->
        [routes[d] EXCEPT !.validation_result = ValidateRoute(routes[d], zones)]]

\* Mission.add_route for every entry of routes
AddRoutes(m, routes) ==
    [m EXCEPT !.routes = [d \in DOMAIN routes |-> [routes[d] EXCEPT !.drone_name = d]] @@ @]

\* the answers the routing solver can give for the mission (one placeholder
\* when VRPSolver is not used)
AnswersFor(m) ==
    IF Len(m.drones) >= 2 /\ m.target_points # <<>>
    THEN RoutingAnswers(Len(m.drones), Len(m.target_points), m.depot # NoWp)
    ELSE {NoSolution}

\* the arguments of a plan_mission call
Args(algorithm, optimization_algorithm, lm, ft, fp) ==
    [algorithm |-> algorithm, optimization_algorithm |-> optimization_algorithm,
     landing_mode |-> lm, finish_point_type |-> ft, finish_point |-> fp]

\* what a call leaves: the mission, the outcome, the orchestrator's weather_data
Left(m, o, wd) == [mission |-> m, outcome |-> o, weather_data |-> wd]

\* plan_mission on an orchestrator holding mission m0 and weather_data wd:
\* everything the call can leave
PlanMissionResults(m0, wd, kw, a) ==
    LET returned == [NoOutcome EXCEPT !.kind = "returned", !.args = a]
        \* lines 230-241: validate, add to the mission, return
        Finish(m1, p, routes) ==
            Left(AddRoutes(m1, routes),
                 [p.o EXCEPT !.kind = "returned", !.routes = routes, !.args = a,
                             !.planned = DOMAIN p.o.routes],
                 "dict")
        \* lines 85-241
        Planned(m1, p) ==
            IF p.stage = "raise"
            THEN {Left(m1, [p.o EXCEPT !.kind = "raised", !.args = a], wd)}
            ELSE IF p.stage = "return"
            THEN {Left(m1, [p.o EXCEPT !.kind = "returned", !.args = a], wd)}
            ELSE IF a.optimization_algorithm # "None" /\ p.o.routes # EmptyMap
            THEN {Finish(m1, p, ValidateRoutes(optimized, m1.no_fly_zones)) :
                     optimized \in OptimizeRoutes(AddRoutes(m1, p.o.routes).routes,
                                                  m1.no_fly_zones, a.optimization_algorithm)}
            ELSE {Finish(m1, p, ValidateRoutes(p.o.routes, m1.no_fly_zones))}
        \* lines 72-83
        Checked(m1, violations) ==
            IF Len(m1.drones) = 0
            THEN {Left(m1, [returned EXCEPT !.error = <<Line("no_drones", "", 0, "")>>], wd)}
            ELSE IF violations # <<>>
            THEN {Left(m1, [returned EXCEPT
                              !.error = <<Line("header", "", 0, "")>> \o violations], wd)}
            ELSE UNION {Planned(m1, PlanRoutes(m1, wd, kw, a.algorithm, answer)) :
                           answer \in AnswersFor(m1)}
        Overridden(m1) ==
            Checked(m1, IF m1.no_fly_zones # <<>>
                        THEN CheckTargetPointsAgainstZones(m1) ELSE <<>>)
    IN Overridden(ApplyOverrides(m0, a.landing_mode, a.finish_point_type, a.finish_point))

\* one plan_mission call on the orchestrator
PlanMissionStep(a) ==
    /\ calls' = calls + 1
    /\ UNCHANGED <<builder_kw, pf, vrp, opt, wm, cm, ec>>
    /\ \E left \in PlanMissionResults(mission, weather_data, builder_kw, a) :
          /\ mission' = left.mission
          /\ outcome' = left.outcome
          /\ weather_data' = left.weather_data

PlanMission(algorithm, optimization_algorithm, lm, ft, fp) ==
    /\ calls < MaxCalls
    /\ PlanMissionStep(Args(algorithm, optimization_algorithm, lm, ft, fp))

\* An option left out (None) keeps the mission's value, which is the default
\* "vertical" / "depot" until a call has changed it.
Next ==
    \E algorithm \in Algorithms,
       optimization_algorithm \in {"None", "genetic", "aco", "pso"},
       lm \in {"None", "gradual"},
       ft \in {"None", "last_target", "custom"},
       fp \in FinishChoices :
        PlanMission(algorithm, optimization_algorithm, lm, ft, fp)

Spec == Init /\ [][Next]_vars

(* ------------------- SpecPlanner: find_path on small graphs ----------- *)
MaxNodes == 4
MaxFinds == 2

\* positions (units of 10 m): nodes 0 and 1 are under 100 m apart, node 3 is
\* 5 km and more from the others
PlannerPos(i) == IF i = 0 THEN <<0, 0, 0>>
                 ELSE IF i = 1 THEN <<6, 0, 0>>
                 ELSE IF i = 2 THEN <<40, 10, 5>>
                 ELSE IF i = 3 THEN <<600, 0, 0>>
                 ELSE <<10 * i, 30, 2>>

\* a NavigationGraph over nodes 0..n-1 with the undirected edges E, weighted
\* by their length, three times the length for the edge heavy
PlannerGraph(n, E, heavy) ==
    LET pos == [i \in 0..(n - 1) |-> PlannerPos(i)]
        base == [n |-> n, pos |-> pos, wp |-> <<>>, adj |-> <<>>, w |-> <<>>]
        pairs == {p \in (0..(n - 1)) \X (0..(n - 1)) : {p[1], p[2]} \in E}
    IN [n |-> n,
        pos |-> pos,
        wp |-> [i \in 0..(n - 1) |-> Wp(i, pos[i][3], "target")],
        adj |-> [i \in 0..(n - 1) |-> SortedSeq({j \in 0..(n - 1) : <<i, j>> \in pairs})],
        w |-> [p \in pairs |->
                 (IF {p[1], p[2]} = heavy THEN 3 ELSE 1)
                 * EuclideanDistance3d(base, p[1], p[2])]]

AllEdges(n) == {{a, b} : a, b \in 0..(n - 1)} \ {{a} : a \in 0..(n - 1)}

InitPlanner ==
    /\ \E E \in SUBSET AllEdges(MaxNodes), algorithm \in {"astar", "thetastar", "dstar"} :
       \E heavy \in {{}} \cup {e \in E : 0 \in e} :
         pf = [algorithm |-> algorithm, G |-> PlannerGraph(MaxNodes, E, heavy),
               start |-> NoNode, goal |-> NoNode, finds |-> 0, path |-> NoPath,
               open |-> {}, crash |-> FALSE]
    /\ mission = <<>>
    /\ weather_data = "None"
    /\ builder_kw = FALSE
    /\ outcome = NoOutcome
    /\ calls = 0
    /\ ec = NoEnergyCheck
    /\ cm = NoCostModel
    /\ opt = NoOptimizer
    /\ wm = NoWeatherManager
    /\ vrp = NoVrp

\* pathfinder.find_path(start, goal) on the planner instance; node MaxNodes
\* is not in the graph.  Only a DStar instance keeps anything (its
\* open_list) from one call to the next.
FindPathCall(start, goal) ==
    /\ pf.finds < (IF pf.algorithm = "dstar" THEN MaxFinds ELSE 1)
    /\ LET r == FindPath(pf.algorithm, pf.G, pf.open, start, goal)
       IN pf' = [pf EXCEPT !.start = start, !.goal = goal, !.finds = @ + 1,
                           !.path = r.path, !.open = r.open, !.crash = r.crash]
    /\ UNCHANGED <<mission, weather_data, builder_kw, outcome, calls, vrp, opt, wm, cm, ec>>

NextPlanner == \E start \in 0..MaxNodes, goal \in 0..MaxNodes : FindPathCall(start, goal)

SpecPlanner == InitPlanner /\ [][NextPlanner]_vars

(* ------------------- SpecVRP: VRPSolver.solve on small missions ------- *)
VrpMaxDrones == 3
VrpMaxTargets == 3

InitVRP ==
    /\ vrp \in [drones : 1..VrpMaxDrones, targets : 0..VrpMaxTargets, depot : BOOLEAN,
                done : {FALSE}, fallback : {FALSE}, assignments : {<<>>}]
    /\ mission = <<>>
    /\ weather_data = "None"
    /\ builder_kw = FALSE
    /\ outcome = NoOutcome
    /\ calls = 0
    /\ ec = NoEnergyCheck
    /\ cm = NoCostModel
    /\ opt = NoOptimizer
    /\ wm = NoWeatherManager
    /\ pf = NoPlanner

\* VRPSolver(mission).solve() for a fleet of vrp.drones aircraft and the
\* first vrp.targets catalogue targets
Solve ==
    /\ ~vrp.done
    /\ LET drones == [i \in 1..vrp.drones |-> DroneName(i)]
           targets == [i \in 1..vrp.targets |-> Wp(i, TargetAlt(i), "target")]
           depot == IF vrp.depot THEN Wp(DepotLoc, GroundAlt, "depot") ELSE NoWp
       IN \E answer \in RoutingAnswers(vrp.drones, vrp.targets, vrp.depot) :
            vrp' = [vrp EXCEPT !.done = TRUE,
                               \* line 118: `if not solution`
                               !.fallback = (vrp.targets > 0 /\ answer = NoSolution),
                               !.assignments = VRPSolve(drones, targets, depot, answer)]
    /\ UNCHANGED <<mission, weather_data, builder_kw, outcome, calls, pf, opt, wm, cm, ec>>

NextVRP == Solve

SpecVRP == InitVRP /\ [][NextVRP]_vars

(* --------------- SpecVia: find_path_to_waypoints on small graphs ------ *)
MaxVia == 2

\* the waypoint_nodes lists of up to MaxVia node ids
RECURSIVE ViaLists(_)
ViaLists(k) ==
    IF k = 0 THEN {<<>>}
    ELSE ViaLists(k - 1)
         \cup {Append(v, x) : v \in {v \in ViaLists(k - 1) : Len(v) = k - 1},
                              x \in 0..MaxNodes}

\* a planner on a graph, before its find_path_to_waypoints call
InitVia ==
    /\ \E E \in SUBSET AllEdges(MaxNodes), algorithm \in Algorithms :
       \E heavy \in {{}} \cup {e \in E : 0 \in e} :
         pf = [algorithm |-> algorithm, G |-> PlannerGraph(MaxNodes, E, heavy),
               start |-> NoNode, via |-> <<>>, finds |-> 0, path |-> NoPath,
               exc |-> "none"]
    /\ mission = <<>>
    /\ weather_data = "None"
    /\ builder_kw = FALSE
    /\ outcome = NoOutcome
    /\ calls = 0
    /\ ec = NoEnergyCheck
    /\ cm = NoCostModel
    /\ opt = NoOptimizer
    /\ wm = NoWeatherManager
    /\ vrp = NoVrp

\* pathfinder.find_path_to_waypoints(start, via) on a fresh planner instance
FindPathToWaypointsCall(start, via) ==
    /\ pf.finds = 0
    /\ LET Answer(r) ==
               pf' = [pf EXCEPT !.start = start, !.via = via, !.finds = 1,
                                !.path = r.path, !.exc = r.exc]
       IN Answer(FindPathToWaypoints(pf.algorithm, pf.G, start, via))
    /\ UNCHANGED <<mission, weather_data, builder_kw, outcome, calls, vrp, opt, wm, cm, ec>>

NextVia ==
    \E start \in 0..MaxNodes, via \in ViaLists(MaxVia) : FindPathToWaypointsCall(start, via)

SpecVia == InitVia /\ [][NextVia]_vars

(* ------------------- SpecReplan: DStar.find_path, then replan --------- *)
\* the new_cost values of a changed edge
ReplanCosts == {1, 5000}

NoChange == <<NoNode, NoNode, 0>>

\* a DStar instance on a graph, before find_path
InitReplan ==
    /\ \E E \in SUBSET AllEdges(MaxNodes) :
       \E heavy \in {{}} \cup {e \in E : 0 \in e} :
         pf = [algorithm |-> "dstar", G |-> PlannerGraph(MaxNodes, E, heavy),
               start |-> NoNode, goal |-> NoNode, phase |-> "new", path |-> NoPath,
               D |-> <<>>, changed |-> NoChange, had_edge |-> FALSE, exc |-> "none"]
    /\ mission = <<>>
    /\ weather_data = "None"
    /\ builder_kw = FALSE
    /\ outcome = NoOutcome
    /\ calls = 0
    /\ ec = NoEnergyCheck
    /\ cm = NoCostModel
    /\ opt = NoOptimizer
    /\ wm = NoWeatherManager
    /\ vrp = NoVrp

\* d_star.find_path(start, goal) on the fresh instance
DStarFind(start, goal) ==
    /\ pf.phase = "new"
    /\ LET Found(D) ==
               pf' = [pf EXCEPT !.start = start, !.goal = goal, !.phase = "found",
                                !.D = D,
                                !.path = IF D.crash THEN NoPath
                                         ELSE DReconstructPath(pf.G, D, start, goal),
                                !.exc = IF D.crash THEN "KeyError" ELSE "none"]
       IN Found(DStarInstance(pf.G, {}, start, goal))
    /\ UNCHANGED <<mission, weather_data, builder_kw, outcome, calls, vrp, opt, wm, cm, ec>>

\* d_star.replan([(node1, node2, new_cost)]) after find_path returned a path
Replan(node1, node2, new_cost) ==
    /\ pf.phase = "found"
    /\ pf.path # NoPath
    /\ LET Answer(r) ==
               pf' = [pf EXCEPT !.phase = "replanned", !.G = r.G, !.D = r.D,
                                !.path = r.path, !.exc = r.exc,
                                !.changed = <<node1, node2, new_cost>>,
                                !.had_edge = HasEdge(pf.G, node1, node2)]
       IN Answer(DStarReplan(pf.G, pf.D, pf.start, pf.goal, node1, node2, new_cost))
    /\ UNCHANGED <<mission, weather_data, builder_kw, outcome, calls, vrp, opt, wm, cm, ec>>

NextReplan ==
    \/ \E start \in 0..(MaxNodes - 1), goal \in 0..(MaxNodes - 1) : DStarFind(start, goal)
    \/ \E node1 \in 0..(MaxNodes - 1), node2 \in 0..(MaxNodes - 1),
          new_cost \in ReplanCosts : Replan(node1, node2, new_cost)

SpecReplan == InitReplan /\ [][NextReplan]_vars

(* ------------- SpecEnergy: the energy check of validate_route -------- *)
MaxEnergy == 50
MaxCapacity == 50

\* routes from the depot over the targets
EnergyRoutes ==
    {<<Wp(DepotLoc, GroundAlt, "depot"), Wp(1, TargetAlt(1), "target")>>,
     <<Wp(DepotLoc, GroundAlt, "depot"), Wp(1, TargetAlt(1), "target"),
       Wp(DepotLoc, GroundAlt, "depot")>>,
     <<Wp(DepotLoc, GroundAlt, "depot")>>}

\* a route whose metrics are not computed yet or hold a total_energy, and
\* an aircraft with a battery capacity
InitEnergy ==
    /\ \E wps \in EnergyRoutes, metrics \in {NoMetrics} \cup 0..MaxEnergy,
          battery_capacity \in 1..MaxCapacity :
         ec = [NoEnergyCheck EXCEPT !.waypoints = wps, !.metrics = metrics,
                                    !.battery_capacity = battery_capacity]
    /\ mission = <<>>
    /\ weather_data = "None"
    /\ builder_kw = FALSE
    /\ outcome = NoOutcome
    /\ calls = 0
    /\ opt = NoOptimizer
    /\ wm = NoWeatherManager
    /\ cm = NoCostModel
    /\ pf = NoPlanner
    /\ vrp = NoVrp

\* lines 85-90 of validate_route: energy_checker.check_route(route, drone),
\* then add_violation / add_warning
CheckEnergy ==
    /\ ~ec.checked
    /\ LET Recorded(total_energy, result) ==
               ec' = [ec EXCEPT
                        !.checked = TRUE,
                        !.metrics = total_energy,
                        !.total_energy = total_energy,
                        !.violations = IF ~result.is_valid
                                       THEN <<Violation("energy", NoNode)>> ELSE <<>>,
                        !.warnings = IF result.warning
                                     THEN <<Violation("energy", NoNode)>> ELSE <<>>]
           Checked(total_energy) ==
               Recorded(total_energy, EnergyCheck(total_energy, ec.battery_capacity))
       IN Checked(IF ec.metrics = NoMetrics
                  THEN CalculateMetrics(ec.waypoints, 0).total_energy
                  ELSE ec.metrics)
    /\ UNCHANGED <<mission, weather_data, builder_kw, outcome, calls, pf, vrp, opt, wm, cm>>

NextEnergy == CheckEnergy

SpecEnergy == InitEnergy /\ [][NextEnergy]_vars

(* ------------- SpecOrder: _optimize_waypoint_order on layouts --------- *)
\* where the waypoints of a layout can lie (units of 10 m)
OrderPositions == {<<10, 0, 0>>, <<0, 10, 0>>, <<10, 10, 0>>, <<30, 0, 4>>}

\* the waypoint graph of a layout: wp_0 at the origin, no edge needed
OrderGraph(layout) ==
    LET pos == [i \in 0..(MaxNodes - 1) |-> IF i = 0 THEN <<0, 0, 0>> ELSE layout[i]]
    IN [n |-> MaxNodes, pos |-> pos,
        wp |-> [i \in 0..(MaxNodes - 1) |-> Wp(i, pos[i][3], "target")],
        adj |-> [i \in 0..(MaxNodes - 1) |-> <<>>], w |-> <<>>]

\* target_nodes: the target nodes wp_1.. of a mission, in any input order
TargetNodeLists ==
    {t \in UNION {[1..k -> 1..(MaxNodes - 1)] : k \in 1..(MaxNodes - 1)} :
        \A i \in 1..Len(t), j \in 1..Len(t) : i # j => t[i] # t[j]}

InitOrder ==
    /\ \E layout \in [1..(MaxNodes - 1) -> OrderPositions], target_nodes \in TargetNodeLists :
         pf = [algorithm |-> "astar", G |-> OrderGraph(layout), start |-> 0,
               target_nodes |-> target_nodes, ordered |-> FALSE, order |-> <<>>,
               exc |-> "none"]
    /\ mission = <<>>
    /\ weather_data = "None"
    /\ builder_kw = FALSE
    /\ outcome = NoOutcome
    /\ calls = 0
    /\ ec = NoEnergyCheck
    /\ opt = NoOptimizer
    /\ wm = NoWeatherManager
    /\ cm = NoCostModel
    /\ vrp = NoVrp

\* self._optimize_waypoint_order(graph, start_node, target_nodes, drone, "distance")
OptimizeOrder ==
    /\ ~pf.ordered
    /\ LET Answer(r) == pf' = [pf EXCEPT !.ordered = TRUE, !.order = r.order,
                                         !.exc = r.exc]
       IN Answer(OptimizeWaypointOrder(pf.G, pf.start, pf.target_nodes))
    /\ UNCHANGED <<mission, weather_data, builder_kw, outcome, calls, vrp, opt, wm, cm, ec>>

NextOrder == OptimizeOrder

SpecOrder == InitOrder /\ [][NextOrder]_vars

(* --------- SpecLanding: the landing synthesis on found paths ---------- *)
\* the paths of distinct nodes from node 0 through the complete planner graph
LandingPaths ==
    {p \in UNION {[1..k -> 0..(MaxNodes - 1)] : k \in 2..MaxNodes} :
        /\ p[1] = 0
        /\ \A i \in 1..Len(p), j \in 1..Len(p) : i # j => p[i] # p[j]}

\* a planner that found the path path_nodes for a one-aircraft mission
InitLanding ==
    /\ \E hasDepot \in BOOLEAN, ft \in {"depot", "last_target", "custom"},
          fp \in FinishChoices, lm \in {"vertical", "gradual"} :
         mission = [drones |-> SubSeq(Drones, 1, 1),
                    target_points |-> <<>>,
                    depot |-> IF hasDepot THEN Wp(0, GroundAlt, "depot") ELSE NoWp,
                    no_fly_zones |-> <<>>, finish_point |-> fp,
                    finish_point_type |-> ft, landing_mode |-> lm, routes |-> EmptyMap]
    /\ \E algorithm \in {"astar", "thetastar"}, path_nodes \in LandingPaths :
         pf = [algorithm |-> algorithm,
               G |-> PlannerGraph(MaxNodes, AllEdges(MaxNodes), {}),
               path_nodes |-> path_nodes, waypoints |-> <<>>, landed |-> FALSE]
    /\ weather_data = "None"
    /\ builder_kw = TRUE
    /\ outcome = NoOutcome
    /\ calls = 0
    /\ ec = NoEnergyCheck
    /\ opt = NoOptimizer
    /\ wm = NoWeatherManager
    /\ cm = NoCostModel
    /\ vrp = NoVrp

\* lines 144-275 of plan_single_drone_route: path_to_waypoints, the landing
\* synthesis and the Route
Land ==
    /\ ~pf.landed
    /\ LET drone == mission.drones[1]
           Landed(waypoints, landed) ==
               /\ pf' = [pf EXCEPT !.landed = TRUE, !.waypoints = waypoints]
               /\ outcome' = [NoOutcome EXCEPT
                                !.kind = IF landed.exc = "none" THEN "route" ELSE "raise",
                                !.exc = landed.exc, !.planner_invoked = TRUE,
                                !.args = [NoArgs EXCEPT !.algorithm = pf.algorithm],
                                !.routes = IF landed.exc = "none"
                                           THEN (drone :> NewRoute(landed.wps, drone))
                                           ELSE EmptyMap]
           Converted(waypoints) == Landed(waypoints, LandingSynthesis(mission, waypoints))
       IN Converted(PathToWaypoints(pf.algorithm, pf.G, pf.path_nodes))
    /\ UNCHANGED <<mission, weather_data, builder_kw, calls, vrp, opt, wm, cm, ec>>

NextLanding == Land

SpecLanding == InitLanding /\ [][NextLanding]_vars

(* ------------------- SpecEdge: CostModel.is_valid_edge ---------------- *)
\* the mission's altitude limits, the altitudes of the end points and the
\* weather at the midpoint of an edge
LimitChoices == {<<NoAlt, NoAlt>>, <<3, NoAlt>>, <<NoAlt, 8>>, <<3, 8>>}
EdgeAltitudes == {0, 1, 5, 10}
WeatherChoices ==
    {NoConditions, Conditions(3, 0, NoVisibility), Conditions(15, 5, 1),
     Conditions(16, 0, 10), Conditions(0, 6, 10), Conditions(0, 0, 0)}

\* a CostModel over the mission's constraints with the weather of the area
InitEdge ==
    /\ \E zs \in ZoneLists, lim \in LimitChoices, w \in WeatherChoices :
         cm = [NoCostModel EXCEPT !.made = TRUE, !.weather = w,
                                  !.constraints = Constraints(zs, lim[1], lim[2])]
    /\ mission = <<>>
    /\ weather_data = "None"
    /\ builder_kw = FALSE
    /\ outcome = NoOutcome
    /\ calls = 0
    /\ ec = NoEnergyCheck
    /\ opt = NoOptimizer
    /\ wm = NoWeatherManager
    /\ pf = NoPlanner
    /\ vrp = NoVrp

\* cost_model.is_valid_edge(...) between two catalogue locations
IsValidEdgeCall(l1, a1, l2, a2, is_start_ground, is_end_ground) ==
    /\ cm.made /\ ~cm.called
    /\ cm' = [cm EXCEPT !.called = TRUE,
                        !.edge = [l1 |-> l1, a1 |-> a1, l2 |-> l2, a2 |-> a2,
                                  is_start_ground |-> is_start_ground,
                                  is_end_ground |-> is_end_ground],
                        !.answer = CostModelIsValidEdge(cm.constraints, cm.weather,
                                       l1, a1, l2, a2, is_start_ground, is_end_ground)]
    /\ UNCHANGED <<mission, weather_data, builder_kw, outcome, calls, pf, vrp, opt, wm, ec>>

NextEdge ==
    \E l1 \in BaseLocs, l2 \in BaseLocs, a1 \in EdgeAltitudes, a2 \in EdgeAltitudes,
       is_start_ground \in BOOLEAN, is_end_ground \in BOOLEAN :
         IsValidEdgeCall(l1, a1, l2, a2, is_start_ground, is_end_ground)

SpecEdge == InitEdge /\ [][NextEdge]_vars

(* ------------- SpecRoute: plan_single_drone_route on small missions --- *)
\* a mission of one aircraft with targets, its route options as set by
\* Mission(...), set_finish_point and the finish type / landing mode widgets
InitRoute ==
    /\ \E tp \in TargetSeqs \ {<<>>}, dp \in DepotChoices, zs \in ZoneLists,
          fp \in FinishChoices, ft \in {"depot", "last_target", "custom"},
          lm \in {"vertical", "gradual"} :
         mission = [drones |-> SubSeq(Drones, 1, 1), target_points |-> tp,
                    depot |-> dp, no_fly_zones |-> zs, finish_point |-> fp,
                    finish_point_type |-> ft, landing_mode |-> lm, routes |-> EmptyMap]
    /\ weather_data = "dict"
    /\ builder_kw \in BOOLEAN
    /\ outcome = NoOutcome
    /\ calls = 0
    /\ ec = NoEnergyCheck
    /\ cm = NoCostModel
    /\ opt = NoOptimizer
    /\ wm = NoWeatherManager
    /\ pf = NoPlanner
    /\ vrp = NoVrp

\* RoutePlanner(mission).plan_single_drone_route(drone, algorithm): kind is
\* "route" (the route is routes[drone]), "none" or "raise"
PlanSingle(algorithm) ==
    /\ outcome.kind = "idle"
    /\ LET drone == mission.drones[1]
           Answer(r) ==
               outcome' = [NoOutcome EXCEPT
                             !.kind = r.kind, !.exc = r.exc, !.planner_invoked = TRUE,
                             !.args = [NoArgs EXCEPT !.algorithm = algorithm],
                             !.routes = IF r.kind = "route" THEN (drone :> r.route)
                                        ELSE EmptyMap]
       IN Answer(PlanSingleDroneRoute(mission, drone, algorithm, builder_kw))
    /\ UNCHANGED <<mission, weather_data, builder_kw, calls, pf, vrp, opt, wm, cm, ec>>

NextRoute == \E algorithm \in Algorithms : PlanSingle(algorithm)

SpecRoute == InitRoute /\ [][NextRoute]_vars

(* ------ SpecOpt: the three metaheuristics on one route ----------------- *)
MaxMiddle == 3

\* the waypoints a planned route passes between its first and its last
MiddleChoices == {Wp(l, TargetAlt(l), "target") : l \in TargetLocs}

RECURSIVE MiddleSeqs(_)
MiddleSeqs(k) ==
    IF k = 0 THEN {<<>>}
    ELSE MiddleSeqs(k - 1)
         \cup {<<w>> \o q : w \in MiddleChoices,
                            q \in {r \in MiddleSeqs(k - 1) : Len(r) = k - 1}}

Metaheuristics == {"genetic", "aco", "pso"}

InitOpt ==
    /\ \E zs \in ZoneLists :
          mission = [drones |-> <<Drones[1]>>, target_points |-> <<>>,
                     depot |-> Wp(DepotLoc, GroundAlt, "depot"), no_fly_zones |-> zs,
                     finish_point |-> MissionDefaults.finish_point,
                     finish_point_type |-> MissionDefaults.finish_point_type,
                     landing_mode |-> MissionDefaults.landing_mode, routes |-> EmptyMap]
    /\ weather_data = "None"
    /\ builder_kw = TRUE
    /\ outcome = NoOutcome
    /\ calls = 0
    /\ ec = NoEnergyCheck
    /\ cm = NoCostModel
    /\ wm = NoWeatherManager
    /\ pf = NoPlanner
    /\ vrp = NoVrp
    /\ \E a \in Metaheuristics, mid \in MiddleSeqs(MaxMiddle),
          last \in {Wp(DepotLoc, GroundAlt, "depot"), Wp(FinishLoc, GroundAlt, "finish")} :
          opt = [algorithm |-> a,
                 route |-> NewRoute(<<Wp(DepotLoc, GroundAlt, "depot")>> \o mid \o <<last>>,
                                    Drones[1]),
                 zones |-> mission.no_fly_zones, done |-> FALSE, result |-> NoRoute]

\* GeneticOptimizer(route, drone).optimize(), ACOOptimizer(route, drone,
\* constraints=...).optimize(), PSOOptimizer(route, drone, constraints=...).optimize()
Optimizers(algorithm, route, zones) ==
    IF algorithm = "genetic" THEN GeneticOptimize(route)
    ELSE IF algorithm = "aco" THEN ACOOptimize(route, zones)
    ELSE PSOOptimize(route, zones)

Optimize ==
    /\ ~opt.done
    /\ \E r \in Optimizers(opt.algorithm, opt.route, opt.zones) :
          opt' = [opt EXCEPT !.done = TRUE, !.result = r]
    /\ UNCHANGED <<mission, weather_data, builder_kw, outcome, calls, pf, vrp, wm, cm, ec>>

NextOpt == Optimize

SpecOpt == InitOpt /\ [][NextOpt]_vars

(* ------ SpecWeather: one WeatherManager answering queries -------------- *)
MaxLatitude == 13
MaxQueries == 3
WeatherLatitudes == 0..MaxLatitude

\* initial_weather_data: samples fetched beforehand, keyed by their own position
InitialWeatherData ==
    {<<>>, <<<<3, Sample(3)>>>>, <<<<9, Sample(9)>>, <<3, Sample(3)>>>>}

InitWeather ==
    /\ mission = [drones |-> <<Drones[1]>>, target_points |-> <<>>,
                  depot |-> Wp(DepotLoc, GroundAlt, "depot"), no_fly_zones |-> <<>>,
                  finish_point |-> MissionDefaults.finish_point,
                  finish_point_type |-> MissionDefaults.finish_point_type,
                  landing_mode |-> MissionDefaults.landing_mode, routes |-> EmptyMap]
    /\ weather_data \in {"None", "dict"}
    /\ builder_kw = TRUE
    /\ outcome = NoOutcome
    /\ calls = 0
    /\ ec = NoEnergyCheck
    /\ cm = NoCostModel
    /\ opt = NoOptimizer
    /\ pf = NoPlanner
    /\ vrp = NoVrp
    /\ \/ /\ weather_data = "None"
          /\ \E use_weather \in BOOLEAN : wm = WeatherManagerInit(<<>>, use_weather)
       \/ /\ weather_data = "dict"
          /\ \E data \in InitialWeatherData \ {<<>>} : wm = WeatherManagerInit(data, TRUE)

\* one get_weather_for_point call; the request, if made, succeeds or fails
GetWeather(latitude, ok) ==
    /\ wm.made
    /\ wm.queries < MaxQueries
    /\ wm' = GetWeatherForPoint(wm, latitude, IF ok THEN Sample(latitude) ELSE NoSample)
    /\ UNCHANGED <<mission, weather_data, builder_kw, outcome, calls, pf, vrp, opt, cm, ec>>

NextWeather == \E latitude \in WeatherLatitudes, ok \in BOOLEAN : GetWeather(latitude, ok)

SpecWeather == InitWeather /\ [][NextWeather]_vars

(* ------ SpecRepeat: plan_mission called again on the same orchestrator -- *)
MaxRepeat == 2

\* a fleet of two with both targets and no zone, an orchestrator built with
\* weather data
InitRepeat ==
    /\ \E dp \in DepotChoices, zs \in {<<>>} :
         mission = [drones |-> SubSeq(Drones, 1, 2),
                    target_points |-> [i \in 1..MaxTargets |-> Wp(i, TargetAlt(i), "target")],
                    depot |-> dp, no_fly_zones |-> zs,
                    finish_point |-> MissionDefaults.finish_point,
                    finish_point_type |-> MissionDefaults.finish_point_type,
                    landing_mode |-> MissionDefaults.landing_mode, routes |-> EmptyMap]
    /\ weather_data = "dict"
    /\ builder_kw = TRUE
    /\ outcome = NoOutcome
    /\ calls = 0
    /\ ec = NoEnergyCheck
    /\ cm = NoCostModel
    /\ opt = NoOptimizer
    /\ wm = NoWeatherManager
    /\ pf = NoPlanner
    /\ vrp = NoVrp

PlanMissionAgain(optimization_algorithm, lm, ft, fp) ==
    /\ calls < MaxRepeat
    /\ PlanMissionStep(Args("astar", optimization_algorithm, lm, ft, fp))

NextRepeat ==
    \E optimization_algorithm \in {"None", "genetic", "pso"},
       lm \in {"None", "gradual"},
       ft \in {"None", "custom"},
       fp \in FinishChoices :
        PlanMissionAgain(optimization_algorithm, lm, ft, fp)

SpecRepeat == InitRepeat /\ [][NextRepeat]_vars

(* ------------------------------ properties ---------------------------- *)
\* the points of mission m inside a no-fly zone: <<"Depot", 0>> and
\* <<"Target point", i>> for the i-th target (counted from 1)
OffendingPoints(m) ==
    (IF m.depot # NoWp /\ \E z \in 1..Len(m.no_fly_zones) :
            ZoneContains(m.no_fly_zones[z], m.depot.loc, m.depot.alt)
     THEN {<<"Depot", 0>>} ELSE {})
    \cup {<<"Target point", i>> : i \in {i \in 1..Len(m.target_points) :
            \E z \in 1..Len(m.no_fly_zones) :
               ZoneContains(m.no_fly_zones[z], m.target_points[i].loc,
                            m.target_points[i].alt)}}

\* the error message has a line naming point p and a no-fly zone
NamesPoint(error, p) ==
    \E k \in 1..Len(error) :
        /\ error[k].kind = "in_zone"
        /\ error[k].subject = p[1]
        /\ error[k].index = p[2]
        /\ error[k].zone # ""

\* C1: when the depot or a target point of a mission (with a fleet) lies in
\* a no-fly zone, a plan_mission call returns an empty route map and an
\* error message naming every offending point, invokes neither the VRP
\* solver nor a planner, and adds no route to mission.routes.
C1_PreCheckAborts ==
    [][(Len(mission.drones) >= 1 /\ OffendingPoints(mission') # {})
       => /\ outcome'.kind = "returned"
          /\ outcome'.routes = EmptyMap
          /\ outcome'.error # <<>>
          /\ \A q \in OffendingPoints(mission') : NamesPoint(outcome'.error, q)
          /\ ~outcome'.vrp_invoked
          /\ ~outcome'.planner_invoked
          /\ mission'.routes = mission.routes]_vars

\* a call on a two-aircraft mission was aborted with the depot and a target
\* point named in the message
C1_Witness ==
    /\ outcome.kind = "returned"
    /\ Len(mission.drones) = 2
    /\ OffendingPoints(mission) # {}
    /\ \E k \in 1..Len(outcome.error) : outcome.error[k].subject = "Target point"
    /\ outcome.routes = EmptyMap

\* the locations of the target points assigned to aircraft d in the last call
AssignedLocs(d) ==
    {mission.target_points[outcome.assigned[d][k] + 1].loc :
        k \in 1..Len(outcome.assigned[d])}

C3_AssignmentIsPartition ==
    (vrp.done /\ vrp.drones >= 1 /\ vrp.targets >= 1) =>
        /\ Len(vrp.assignments) = vrp.drones
        /\ \A v \in 1..Len(vrp.assignments) : \A k \in 1..Len(vrp.assignments[v]) :
              vrp.assignments[v][k] \in 0..(vrp.targets - 1)
        /\ \A i \in 0..(vrp.targets - 1) :
              Cardinality({c \in {<<v, k>> : v \in 1..Len(vrp.assignments),
                                             k \in 1..VrpMaxTargets} :
                              /\ c[2] <= Len(vrp.assignments[c[1]])
                              /\ vrp.assignments[c[1]][c[2]] = i}) = 1

ExemptTypes == {"landing_segment", "landing_approach", "depot", "finish"}

HasLineFor(error, d) ==
    \E k \in 1..Len(error) : error[k].kind = "failed_for" /\ error[k].subject = d

C7_NeverRaises == outcome.kind # "raised"

\* aircraft d has a route or a line of its own in the error message (for a
\* single aircraft the "No route found" message is its line)
AccountedFor(d) ==
    \/ d \in DOMAIN outcome.routes
    \/ HasLineFor(outcome.error, d)
    \/ /\ Len(mission.drones) = 1
       /\ \E k \in 1..Len(outcome.error) : outcome.error[k].kind = "no_route_found"

\* C8: when a plan_mission call got past the no-fly pre-check and returned,
\* every aircraft of the fleet has an entry in the route map or a line of
\* its own in the error message.
C8_EveryAircraftAccounted ==
    (outcome.kind = "returned" /\ outcome.precheck_passed) =>
        \A d \in Range(mission.drones) : AccountedFor(d)

\* the nodes reachable from the nodes S along edges of G
RECURSIVE ReachableFrom(_, _)
ReachableFrom(G, S) ==
    LET more == S \cup {b \in Nodes(G) : \E a \in S : HasEdge(G, a, b)}
    IN IF more = S THEN S ELSE ReachableFrom(G, more)

\* C9: a path returned by AStar.find_path(start, goal) begins with start,
\* ends with goal, and each two consecutive nodes of it are joined by an
\* edge of the graph.
C9_AStarPathValid ==
    (pf.algorithm = "astar" /\ pf.finds > 0 /\ pf.path # NoPath) =>
        /\ pf.path[1] = pf.start
        /\ pf.path[Len(pf.path)] = pf.goal
        /\ \A i \in 1..(Len(pf.path) - 1) : HasEdge(pf.G, pf.path[i], pf.path[i + 1])

\* A* returned a path through an intermediate node
C9_Witness ==
    /\ pf.algorithm = "astar"
    /\ pf.finds > 0
    /\ Len(pf.path) >= 3

\* C10: for each of the three planners, find_path(start, goal) returns a
\* node sequence from start to goal when goal is reachable from start, and
\* None when start or goal is not a node or goal is unreachable.
C10_FindPathTotal ==
    pf.finds > 0 =>
        /\ ~pf.crash
        /\ IF /\ HasNode(pf.G, pf.start)
              /\ HasNode(pf.G, pf.goal)
              /\ pf.goal \in ReachableFrom(pf.G, {pf.start})
           THEN /\ pf.path # NoPath
                /\ pf.path[1] = pf.start
                /\ pf.path[Len(pf.path)] = pf.goal
           ELSE pf.path = NoPath

\* a second call on a DStar instance found a path of three nodes or more
C10_Witness ==
    /\ pf.algorithm = "dstar"
    /\ pf.finds = 2
    /\ Len(pf.path) >= 3

\* what find_path answers for each pair (start, v1), (v1, v2), ... in turn on
\* one planner instance, up to and including the first None
RECURSIVE SinglePairPaths(_, _, _, _, _, _)
SinglePairPaths(algorithm, G, open, current, via, i) ==
    IF i > Len(via) THEN <<>>
    ELSE LET Next1(r) ==
                 IF r.path = NoPath THEN <<NoPath>>
                 ELSE <<r.path>> \o SinglePairPaths(algorithm, G, r.open, via[i], via, i + 1)
         IN Next1(FindPath(algorithm, G, open, current, via[i]))

\* the paths one after another, each join node once
RECURSIVE JoinOnce(_)
JoinOnce(paths) ==
    IF paths = <<>> THEN <<>>
    ELSE IF Len(paths) = 1 THEN paths[1]
    ELSE JoinOnce(SubSeq(paths, 1, Len(paths) - 1)) \o Tail(paths[Len(paths)])

\* seq has the members of sub, in that order, at increasing positions from
\* position from on
RECURSIVE VisitsInOrder(_, _, _)
VisitsInOrder(seq, sub, from) ==
    IF sub = <<>> THEN TRUE
    ELSE \E k \in from..Len(seq) :
            seq[k] = sub[1] /\ VisitsInOrder(seq, Tail(sub), k)

\* C11: find_path_to_waypoints(start, via) returns [start] for an empty via
\* list, None as soon as a single-pair search returns None, and otherwise
\* the single-pair paths joined with each join node once, which begins with
\* start and visits the via nodes in the given order.
C11_ViaConcatenates ==
    pf.finds > 0 =>
        LET Joined(legs) ==
                IF pf.via = <<>> THEN pf.path = <<pf.start>>
                ELSE IF \E k \in 1..Len(legs) : legs[k] = NoPath THEN pf.path = NoPath
                ELSE /\ Len(legs) = Len(pf.via)
                     /\ pf.path = JoinOnce(legs)
                     /\ pf.path[1] = pf.start
                     /\ VisitsInOrder(pf.path, pf.via, 1)
        IN /\ pf.exc = "none"
           /\ Joined(SinglePairPaths(pf.algorithm, pf.G, {}, pf.start, pf.via, 1))

\* a call with two via nodes returned a path of four nodes or more
C11_Witness ==
    /\ pf.finds > 0
    /\ Len(pf.via) = 2
    /\ pf.path # NoPath
    /\ Len(pf.path) >= 4

\* the summed get_edge_weight(a, b, current_speed = 0) along a node sequence
RECURSIVE PathWeight(_, _, _)
PathWeight(G, path, i) ==
    IF i >= Len(path) THEN 0
    ELSE AddInf(GetEdgeWeight(G, path[i], path[i + 1]), PathWeight(G, path, i + 1))

\* the paths without a repeated node that extend path to goal along edges
RECURSIVE SimplePathsFrom(_, _, _)
SimplePathsFrom(G, path, goal) ==
    IF path[Len(path)] = goal THEN {path}
    ELSE UNION {SimplePathsFrom(G, Append(path, nb), goal) :
                   nb \in {x \in Nodes(G) : /\ HasEdge(G, path[Len(path)], x)
                                             /\ x \notin Range(path)}}

\* C12: the path returned by AStar.find_path(start, goal) has a summed edge
\* weight not greater than that of any other path from start to goal in
\* the graph (cached weights, all non-negative).
C12_AStarLeastWeight ==
    (pf.algorithm = "astar" /\ pf.finds > 0 /\ pf.path # NoPath) =>
        \A other \in SimplePathsFrom(pf.G, <<pf.start>>, pf.goal) :
            PathWeight(pf.G, pf.path, 1) <= PathWeight(pf.G, other, 1)

\* path goes over the edge {a, b}
UsesEdge(path, a, b) ==
    \E i \in 1..(Len(path) - 1) : {path[i], path[i + 1]} = {a, b}

\* C13: after find_path returned a path, replan([(u, v, w)]) for an existing
\* edge {u, v} leaves the cached weight of the edge at w and returns a path
\* from start to goal that goes over the edge only when every path from
\* start to goal does.
C13_ReplanUpdatesEdge ==
    (pf.phase = "replanned" /\ pf.had_edge) =>
        /\ pf.exc = "none"
        /\ GetEdgeWeight(pf.G, pf.changed[1], pf.changed[2]) = pf.changed[3]
        /\ pf.path # NoPath
        /\ pf.path[1] = pf.start
        /\ pf.path[Len(pf.path)] = pf.goal
        /\ UsesEdge(pf.path, pf.changed[1], pf.changed[2])
              => \A other \in SimplePathsFrom(pf.G, <<pf.start>>, pf.goal) :
                    UsesEdge(other, pf.changed[1], pf.changed[2])

\* the finish point the finish type names: the depot, or the custom point
FinishOf(m) == IF m.finish_point_type = "custom" THEN m.finish_point ELSE m.depot

Count(seq, x) == Cardinality({i \in 1..Len(seq) : seq[i] = x})

\* C15: for an input route of at least three waypoints the route a
\* metaheuristic returns starts and ends with the input's first and last
\* waypoint and its interior holds the same waypoints as the input's interior,
\* each as many times
C15_InteriorPermuted ==
    (opt.done /\ Len(opt.route.waypoints) >= 3) =>
       LET a == opt.route.waypoints
           b == opt.result.waypoints
       IN /\ Len(b) = Len(a)
          /\ b[1] = a[1]
          /\ b[Len(b)] = a[Len(a)]
          /\ \A w \in Range(Middle(a)) \cup Range(Middle(b)) :
                Count(Middle(b), w) = Count(Middle(a), w)

\* C16: a route returned by a metaheuristic that differs from the input route
\* has no waypoint inside a no-fly zone and no segment crossing a zone band
C16_NoFlyPenalty ==
    (opt.done /\ opt.result.waypoints # opt.route.waypoints) =>
       NoFlyPenaltyFree(opt.zones, opt.result.waypoints)

\* the cache keys strictly within MIN_WEATHER_DISTANCE of a query point
NearKeys(cache, latitude) ==
    {k \in CacheKeys(cache) : WeatherDistance(latitude, k) < MinWeatherDistance}

\* C18: a query of an enabled manager is answered from the cache entry of
\* its grid key if there is one, otherwise from the nearest cache entry
\* within 5 km if there is one, and only otherwise by a request to the
\* external client, whose sample is stored under the grid key; every cache
\* entry stays as it is
C18_LookupOrder ==
    [][(wm.made /\ wm.use_weather /\ wm'.queries = wm.queries + 1) =>
         LET cache == wm.weather_cache
             q == wm'.last
         IN /\ q.grid_key = RoundToGrid(q.latitude)
            /\ (q.grid_key \in CacheKeys(cache)) =>
                  (q.answer = CacheGet(cache, q.grid_key) /\ ~q.called)
            /\ (q.grid_key \notin CacheKeys(cache) /\ NearKeys(cache, q.latitude) # {}) =>
                  /\ ~q.called
                  /\ \E k \in NearKeys(cache, q.latitude) :
                        /\ q.answer = CacheGet(cache, k)
                        /\ \A o \in NearKeys(cache, q.latitude) :
                              WeatherDistance(q.latitude, k) <= WeatherDistance(q.latitude, o)
            /\ q.called =>
                  (q.grid_key \notin CacheKeys(cache) /\ NearKeys(cache, q.latitude) = {})
            /\ (q.called /\ q.answer # NoSample) =>
                  /\ q.grid_key \in CacheKeys(wm'.weather_cache)
                  /\ CacheGet(wm'.weather_cache, q.grid_key) = q.answer
            /\ Len(wm'.weather_cache) >= Len(cache)
            /\ SubSeq(wm'.weather_cache, 1, Len(cache)) = cache]_vars

\* a sample fetched by an earlier query answers a later query, for its grid
\* key or for a point nearby, without a request
C18_Witness ==
    /\ wm.made /\ wm.use_weather
    /\ wm.fetched_points # {}
    /\ ~wm.last.called
    /\ wm.last.answer # NoSample
    /\ wm.last.answer.at # wm.last.latitude
    /\ \E i \in 1..Len(wm.weather_cache) :
          /\ wm.weather_cache[i][1] \in wm.fetched_points
          /\ wm.weather_cache[i][2] = wm.last.answer

\* C19: a query whose grid key had a failed request before is answered with
\* no sample and without a request to the external client
C19_FailedFetchNotRetried ==
    [][(wm.made /\ wm'.queries = wm.queries + 1 /\ wm'.last.grid_key \in wm.failed) =>
          (~wm'.last.called /\ wm'.last.answer = NoSample)]_vars

FreshMission(m) ==
    [m EXCEPT !.finish_point = MissionDefaults.finish_point,
              !.finish_point_type = MissionDefaults.finish_point_type,
              !.landing_mode = MissionDefaults.landing_mode,
              !.routes = EmptyMap]

C30_ReusedInstanceAsFresh ==
    (pf.algorithm = "dstar" /\ pf.finds > 0)
        => pf.path = DStarFindPath(pf.G, {}, pf.start, pf.goal).path

\* a second find_path found a path while the open_list still held entries of
\* the first search, which a fresh instance would not hold
C30_Witness ==
    /\ pf.algorithm = "dstar" /\ pf.finds = 2
    /\ pf.path # NoPath /\ Len(pf.path) > 1
    /\ pf.open \ DStarFindPath(pf.G, {}, pf.start, pf.goal).open # {}
\* C23: in the graph the planner builds from the depot and the targets, every
\* link of a path that ThetaStar.find_path returned is a graph edge or a
\* shortcut of under 5 km over a segment that is_valid_edge accepts
C23_ShortcutsFeasible ==
    (outcome.planner_invoked /\ outcome.args.algorithm = "thetastar") =>
        LET wps == (IF mission.depot # NoWp THEN <<mission.depot>> ELSE <<>>)
                   \o mission.target_points
            Checked(G) ==
                \A a \in Nodes(G), b \in Nodes(G) :
                    LET Links(path) ==
                            \A i \in 1..(Len(path) - 1) :
                                \/ HasEdge(G, path[i], path[i + 1])
                                \/ /\ EuclideanDistance3d(G, path[i], path[i + 1]) < LosFar
                                   /\ IsValidEdge(mission.no_fly_zones,
                                                  G.wp[path[i]].loc, G.wp[path[i]].alt,
                                                  G.wp[path[i + 1]].loc,
                                                  G.wp[path[i + 1]].alt)
                    IN Links(ThetaStarFindPath(G, a, b))
        IN Checked(BuildWaypointGraph(mission.no_fly_zones, wps, DroneCaps.max_range))
C24_WaypointGraph ==
    outcome.planner_invoked =>
        LET wps == (IF mission.depot # NoWp THEN <<mission.depot>> ELSE <<>>)
                   \o mission.target_points
            c == Constraints(mission.no_fly_zones, NoAlt, NoAlt)
            Ground(w) == w.type \in {"depot", "finish"}
            Feasible(p, q) ==
                /\ CostModelIsValidEdge(c, NoConditions, p.loc, p.alt, q.loc, q.alt,
                                        Ground(p), Ground(q)).ok
                /\ Haversine(p.loc, q.loc) <= DroneCaps.max_range
            Checked(G) ==
                /\ G.n = Len(wps)
                /\ \A i \in Nodes(G) : G.wp[i] = wps[i + 1]
                /\ \A i \in Nodes(G), j \in Nodes(G) :
                      i # j => (HasEdge(G, i, j) <=> Feasible(wps[i + 1], wps[j + 1]))
        IN Checked(BuildWaypointGraph(mission.no_fly_zones, wps, DroneCaps.max_range))
C27_GreedyOrder ==
    pf.ordered =>
        LET t == pf.target_nodes
            r == pf.order
            cost(a, b) == EuclideanDistance3d(pf.G, a, b)
            InputIndex(x) == CHOOSE i \in 1..Len(t) : t[i] = x
            Chosen(k) == {r[i] : i \in 1..(k - 1)}
            From(k) == IF k = 1 THEN pf.start ELSE r[k - 1]
        IN /\ pf.exc = "none"
           /\ Len(r) = Len(t)
           /\ {r[i] : i \in 1..Len(r)} = {t[i] : i \in 1..Len(t)}
           /\ \A i \in 1..Len(r) : r[i] # pf.start
           /\ \A k \in 1..Len(r) :
                 \A x \in {t[i] : i \in 1..Len(t)} \ Chosen(k) :
                     \/ cost(From(k), r[k]) < cost(From(k), x)
                     \/ /\ cost(From(k), r[k]) = cost(From(k), x)
                        /\ InputIndex(r[k]) <= InputIndex(x)

\* three targets were ordered, two of them equally near the start node, and
\* the order differs from the input order
C27_Witness ==
    /\ pf.ordered /\ Len(pf.order) = 3 /\ pf.order # pf.target_nodes
    /\ \E i \in 2..3 :
          /\ pf.order[i] # pf.order[1]
          /\ EuclideanDistance3d(pf.G, pf.start, pf.order[i])
               = EuclideanDistance3d(pf.G, pf.start, pf.order[1])
\* C28: when the routing solver finds no solution, solve returns the greedy
\* assignment: the i-th nearest target to the depot (i from 0) goes to
\* aircraft i mod k of the fleet order, every target index is in exactly one
\* list exactly once, and the list sizes differ by at most one
C28_GreedyFallback ==
    (vrp.done /\ vrp.fallback) =>
        LET a == vrp.assignments
            k == vrp.drones
            dist(i) == Haversine(DepotLoc, i + 1)
            \* position (from 0) of target index i in the order by distance,
            \* equal distances in input order
            Rank(i) == Cardinality({j \in 0..(vrp.targets - 1) :
                                      dist(j) < dist(i) \/ (dist(j) = dist(i) /\ j < i)})
        IN /\ Len(a) = k
           /\ \A i \in 0..(vrp.targets - 1) :
                 /\ Cardinality({c \in (1..k) \X (1..vrp.targets) :
                                    c[2] <= Len(a[c[1]]) /\ a[c[1]][c[2]] = i}) = 1
                 /\ vrp.depot =>
                       \E pos \in 1..Len(a[(Rank(i) % k) + 1]) :
                           a[(Rank(i) % k) + 1][pos] = i
           /\ \A v \in 1..k, u \in 1..k : Len(a[v]) - Len(a[u]) <= 1
\* C29 as stated: the energy check records a violation exactly when the
\* route's total energy E exceeds the battery capacity C, and a warning
\* exactly when E exceeds nine tenths of C
C29_EnergyWarningAboveNineTenths ==
    ec.checked =>
        /\ (ec.violations # <<>>) <=> (ec.total_energy > ec.battery_capacity)
        /\ (ec.warnings # <<>>) <=> (10 * ec.total_energy > 9 * ec.battery_capacity)

\* C29, amended: a violation exactly when E > C, and a warning exactly when
\* 0.9 C < E <= C; so E = C gives a warning and no violation, E <= 0.9 C
\* gives neither, and E > C gives the violation without a warning
C29_EnergyVerdict ==
    ec.checked =>
        /\ (ec.violations # <<>>) <=> (ec.total_energy > ec.battery_capacity)
        /\ (ec.warnings # <<>>) <=> (/\ 10 * ec.total_energy > 9 * ec.battery_capacity
                                     /\ ec.total_energy <= ec.battery_capacity)

\* a route whose computed total energy equals the capacity was checked: a
\* warning and no violation
C29_Witness ==
    /\ ec.checked /\ Len(ec.waypoints) = 2
    /\ ec.total_energy = CalculateMetrics(ec.waypoints, 0).total_energy
    /\ ec.total_energy = ec.battery_capacity
    /\ ec.warnings # <<>> /\ ec.violations = <<>>
====
